---------------------------- MODULE Spec2Model ----------------------------
(***************************************************************************)
(* Voting ledger and checkout reconciliation of the Karman car-show app.   *)
(*                                                                         *)
(* The store (src/database.py: tables shows, people, show_cars, votes and  *)
(* donations),                                                            *)
(* the Stripe checkout gateway as the handlers of src/app.py use it, and   *)
(* the request handlers themselves.  Requests are served concurrently: the *)
(* before_request hook is one step, and every handler is cut into steps at *)
(* the points where it leaves the process (one store transaction, or one   *)
(* call to the gateway), so that requests interleave as they do under a    *)
(* multi-threaded or multi-process server.                                 *)
(*                                                                         *)
(* Text that the code parses or formats (the vote_qty form field, the      *)
(* metadata values of a checkout session) is a sequence of one-character   *)
(* strings, parsed by PyInt as Python's int() does and written by PyStr as *)
(* str() does.  Slugs, tokens and category names are only compared, and    *)
(* are plain strings.                                                      *)
(***************************************************************************)
EXTENDS Integers, Sequences, FiniteSets, Bags, TLC

(***************************************************************************)
(* Bounds of the model.                                                    *)
(***************************************************************************)
\* requests in flight at once
MaxWorkers == 2
\* checkout sessions in the gateway account
MaxSessions == 1
\* ticks of the wall clock
MaxClock == 1
\* requests in flight at once where every checkout form is sent
CheckoutWorkers == 1
\* ledger rows that earlier runs of the server left in the store
PriorRows == 2
\* rows of show_cars, of people and of donations
MaxCars == 5
MaxPeople == 5
MaxDonations == 1
\* gateway sessions when the vote flow and the donation flow run side by side
FlowSessions == 2

(***************************************************************************)
(* Program constants.                                                      *)
(***************************************************************************)
\* app.py:102
VOTE_PRICE_CENTS == 100
\* app.py:617, the smallest and the largest quantity of one checkout
MIN_VOTE_QTY == 1
MAX_VOTE_QTY == 50

\* app.py:104-112
CATEGORY_SLUGS ==
    [s \in {"army", "navy", "air-force", "marines", "coast-guard",
            "space-force", "peoples-choice"} |->
        CASE s = "army" -> "Army"
          [] s = "navy" -> "Navy"
          [] s = "air-force" -> "Air Force"
          [] s = "marines" -> "Marines"
          [] s = "coast-guard" -> "Coast Guard"
          [] s = "space-force" -> "Space Force"
          [] s = "peoples-choice" -> "People's Choice"]

CATEGORY_NAMES == {CATEGORY_SLUGS[s] : s \in DOMAIN CATEGORY_SLUGS}

(***************************************************************************)
(* Python's int(text) and str(int).                                        *)
(***************************************************************************)
DigitChars == <<"0", "1", "2", "3", "4", "5", "6", "7", "8", "9">>

IsDigit(c) == \E i \in 1..10 : DigitChars[i] = c

DigitVal(c) == (CHOOSE i \in 1..10 : DigitChars[i] = c) - 1

IsSpace(c) == c \in {" ", "\t", "\n"}

RECURSIVE LStrip(_)
LStrip(s) ==
    IF s # <<>> /\ IsSpace(Head(s)) THEN LStrip(Tail(s)) ELSE s

RECURSIVE RStrip(_)
RStrip(s) ==
    IF s # <<>> /\ IsSpace(s[Len(s)]) THEN RStrip(SubSeq(s, 1, Len(s) - 1)) ELSE s

\* str.strip()
Strip(s) == RStrip(LStrip(s))

\* the digits of an int() literal: digits, single underscores only between digits
RECURSIVE DigitsOk(_, _)
DigitsOk(s, afterDigit) ==
    IF s = <<>> THEN afterDigit
    ELSE IF IsDigit(Head(s)) THEN DigitsOk(Tail(s), TRUE)
    ELSE IF Head(s) = "_" THEN afterDigit /\ Tail(s) # <<>> /\ IsDigit(Head(Tail(s)))
                               /\ DigitsOk(Tail(s), FALSE)
    ELSE FALSE

RECURSIVE DigitsValue(_, _)
DigitsValue(s, acc) ==
    IF s = <<>> THEN acc
    ELSE IF Head(s) = "_" THEN DigitsValue(Tail(s), acc)
    ELSE DigitsValue(Tail(s), 10 * acc + DigitVal(Head(s)))

\* int(s) for a str s: [ok |-> TRUE, val |-> n], or ok = FALSE for ValueError
PyInt(s) ==
    LET t == Strip(s)
        signed == t # <<>> /\ Head(t) \in {"+", "-"}
        body == IF signed THEN Tail(t) ELSE t
    IN  IF DigitsOk(body, FALSE)
        THEN [ok |-> TRUE,
              val |-> IF signed /\ Head(t) = "-" THEN 0 - DigitsValue(body, 0)
                      ELSE DigitsValue(body, 0)]
        ELSE [ok |-> FALSE, val |-> 0]

RECURSIVE NatStr(_)
NatStr(n) ==
    IF n < 10 THEN <<DigitChars[n + 1]>>
    ELSE NatStr(n \div 10) \o <<DigitChars[(n % 10) + 1]>>

\* str(n) for an int n
PyStr(n) == IF n < 0 THEN <<"-">> \o NatStr(0 - n) ELSE NatStr(n)


(***************************************************************************)
(* The store, the gateway, the workers.                                    *)
(***************************************************************************)
VARIABLES
    stripe_api_key,   \* app.py:99   TRUE when STRIPE_SECRET_KEY is set
    voting_end,       \* app.py:181  VOTING_END: <<>> unset, <<t>> a deadline
    now,              \* the wall clock, read by datetime('now') and datetime.now
    shows,            \* table shows: id -> [slug, voting_open, is_active]
    people,           \* table people: the ids of its rows
    show_cars,        \* table show_cars: a set of rows
    donations,        \* table donations: its rows in rowid order
    votes,            \* table votes: its rows in rowid order
    stripe_sessions,  \* the gateway's checkout sessions: id -> session
    req,              \* the requests in flight: a bag of what each holds
    response,         \* what the last step answered: a response, or NoResponse
    scenario,         \* the run's environment, fixed by Init: [workers, sessions, forms, externals]
    created,          \* history: session id -> ledger rows ever inserted for it (2 = more than once)
    rowcount,         \* history: rows of votes the last step's INSERT or DELETE changed, -1 when it ran none
    failed,           \* history: the session ids whose retrieval from the gateway raised
    origin            \* history: session id -> what create_checkout_session had validated
                      \* when it created the session, <<>> for sessions of other origin

vars == <<stripe_api_key, voting_end, now, shows, people, show_cars, donations, votes,
          stripe_sessions, req, response, scenario, created, rowcount, failed, origin>>

\* what the store never changes in the steps of the checkout flows
config == <<stripe_api_key, voting_end, scenario>>
registry == <<people, show_cars, donations>>

(***************************************************************************)
(* The scenario: the rows the store holds when the server starts.          *)
(***************************************************************************)
\* app.py:114-124 DEFAULT_SHOW, the active show; a second show from an earlier event
DefaultSlug == "karman-charity-show"
OtherSlug == "pop-up-show"
ShowIds == {1, 2}

InitShows(open1, open2) ==
    [i \in ShowIds |->
        IF i = 1 THEN [slug |-> DefaultSlug, voting_open |-> open1, is_active |-> 1]
                 ELSE [slug |-> OtherSlug, voting_open |-> open2, is_active |-> 0]]

InitPeople == {1, 2, 3}

InitShowCars ==
    { [id |-> 1, show_id |-> 1, person_id |-> 1, car_number |-> 5, car_token |-> "tok-a",
       make |-> "TBD"],
      [id |-> 2, show_id |-> 1, person_id |-> 2, car_number |-> 7, car_token |-> "tok-b",
       make |-> "TBD"],
      [id |-> 3, show_id |-> 2, person_id |-> 3, car_number |-> 5, car_token |-> "tok-c",
       make |-> "TBD"] }

\* the ids the gateway gives the sessions the app creates, in order
SessionIds == {<<"cs", n>> : n \in 1..scenario.sessions}

None == <<>>
Some(v) == <<v>>

\* a request that has passed before_request and enters its handler
AtHandler == [pc |-> "handler"]

Response(op, resp) == [op |-> op, resp |-> resp]
NoResponse == Response("none", "none")

(***************************************************************************)
(* src/database.py: the queries and updates the voting flows use.  A query *)
(* that returns one row or None returns a set with at most one row.        *)
(***************************************************************************)
\* SELECT * FROM shows WHERE is_active = 1 LIMIT 1: the first such row
get_active_show ==
    LET active == {i \in DOMAIN shows : shows[i].is_active = 1}
    IN  {i \in active : \A j \in active : i <= j}

get_show_by_slug(slug) == {i \in DOMAIN shows : shows[i].slug = slug}

\* a lookup by the token alone, whatever show the car is in
get_show_car_public_by_token_any_show(show_id, car_token) ==
    {c \in show_cars : c.person_id \in people /\ c.car_token = car_token}

\* a lookup with neither the join nor the show in its WHERE clause
get_show_car_public_by_token_unscoped(show_id, car_token) ==
    {c \in show_cars : c.car_token = car_token}

\* show_cars JOIN people, WHERE show_id = ? AND car_token = ?
get_show_car_public_by_token(show_id, car_token) ==
    {c \in show_cars : /\ c.person_id \in people
                       /\ c.show_id = show_id
                       /\ c.car_token = car_token}

set_show_voting_open(show_id, voting_open) ==
    [i \in DOMAIN shows |->
        IF i = show_id
        THEN [shows[i] EXCEPT !.voting_open = IF voting_open THEN 1 ELSE 0]
        ELSE shows[i]]

toggle_show_voting(show_id) ==
    [i \in DOMAIN shows |->
        IF i = show_id
        THEN [shows[i] EXCEPT !.voting_open = IF shows[i].voting_open = 1 THEN 0 ELSE 1]
        ELSE shows[i]]

VoteRow(show_id, show_car_id, category, vote_qty, amount_cents, stripe_session_id) ==
    [show_id |-> show_id, show_car_id |-> show_car_id, category |-> category,
     vote_qty |-> vote_qty, amount_cents |-> amount_cents,
     stripe_session_id |-> stripe_session_id, created_at |-> now]

\* a votes table without the UNIQUE index
UniqueViolation_no_index(stripe_session_id) == FALSE

\* the UNIQUE index on votes.stripe_session_id: would this INSERT raise IntegrityError
UniqueViolation(stripe_session_id) ==
    \E i \in 1..Len(votes) : votes[i].stripe_session_id = stripe_session_id

\* an insert that no IntegrityError stops
record_paid_votes_always_inserts(show_id, show_car_id, category, vote_qty, amount_cents, stripe_session_id) ==
    Append(votes, VoteRow(show_id, show_car_id, category, vote_qty,
                          amount_cents, stripe_session_id))

\* an INSERT OR REPLACE: the row of the session is written anew
record_paid_votes_replaces(show_id, show_car_id, category, vote_qty, amount_cents, stripe_session_id) ==
    Append(SelectSeq(votes, LAMBDA v : v.stripe_session_id # stripe_session_id),
           VoteRow(show_id, show_car_id, category, vote_qty, amount_cents, stripe_session_id))

\* the votes table after record_paid_votes: the row appended, or, when the
\* INSERT raises IntegrityError, the table as it was
record_paid_votes(show_id, show_car_id, category, vote_qty, amount_cents, stripe_session_id) ==
    IF UniqueViolation(stripe_session_id)
    THEN votes
    ELSE Append(votes, VoteRow(show_id, show_car_id, category, vote_qty,
                               amount_cents, stripe_session_id))

\* DELETE FROM votes, without the WHERE clause
reset_votes_for_show_every_show(show_id) == SelectSeq(votes, LAMBDA v : FALSE)

\* a DELETE that leaves the newest row of the show in place
reset_votes_for_show_keeps_newest(show_id) ==
    LET mine == {i \in DOMAIN votes : votes[i].show_id = show_id}
        newest == CHOOSE i \in mine : \A j \in mine : j <= i
    IN  SelectSeq(votes, LAMBDA v : v.show_id # show_id \/ (mine # {} /\ v = votes[newest]))

\* the votes table after DELETE FROM votes WHERE show_id = ?
reset_votes_for_show(show_id) ==
    SelectSeq(votes, LAMBDA v : v.show_id # show_id)

\* votes JOIN show_cars JOIN people: the joined row of a ledger row, if any
ExportJoin(v) ==
    {[created_at |-> v.created_at, category |-> v.category, vote_qty |-> v.vote_qty,
      amount_cents |-> v.amount_cents, stripe_session_id |-> v.stripe_session_id,
      car_number |-> c.car_number, make |-> c.make, person_id |-> c.person_id] :
        c \in {c \in show_cars : c.id = v.show_car_id /\ c.person_id \in people}}

RECURSIVE ExportRows(_, _)
ExportRows(vs, show_id) ==
    IF vs = <<>> THEN <<>>
    ELSE LET v == Head(vs)
             joined == IF v.show_id = show_id THEN ExportJoin(v) ELSE {}
         IN  (IF joined = {} THEN <<>> ELSE <<CHOOSE r \in joined : TRUE>>)
             \o ExportRows(Tail(vs), show_id)

RECURSIVE InsertByCreatedAt(_, _)
\* row x put into the ordered rows after every row that is not later than it
InsertByCreatedAt(rows, x) ==
    IF rows = <<>> THEN <<x>>
    ELSE IF Head(rows).created_at <= x.created_at
         THEN <<Head(rows)>> \o InsertByCreatedAt(Tail(rows), x)
         ELSE <<x>> \o rows

RECURSIVE OrderByCreatedAt(_)
\* ORDER BY v.created_at ASC, rows of equal created_at in rowid order
OrderByCreatedAt(rows) ==
    IF rows = <<>> THEN <<>>
    ELSE InsertByCreatedAt(OrderByCreatedAt(SubSeq(rows, 1, Len(rows) - 1)), rows[Len(rows)])

export_votes_for_show(show_id) == OrderByCreatedAt(ExportRows(votes, show_id))

RECURSIVE LeaderboardJoin(_, _)
\* votes v JOIN show_cars sc ON sc.id = v.show_car_id WHERE v.show_id = ?
LeaderboardJoin(vs, show_id) ==
    IF vs = <<>> THEN <<>>
    ELSE LET v == Head(vs)
             cars == {c \in show_cars : c.id = v.show_car_id}
         IN  (IF v.show_id = show_id /\ cars # {}
              THEN <<[category |-> v.category,
                      car_number |-> (CHOOSE c \in cars : TRUE).car_number,
                      vote_qty |-> v.vote_qty]>>
              ELSE <<>>)
             \o LeaderboardJoin(Tail(vs), show_id)

RECURSIVE SumVoteQty(_)
\* SUM(v.vote_qty) over the rows of a group
SumVoteQty(rows) ==
    IF rows = <<>> THEN 0 ELSE Head(rows).vote_qty + SumVoteQty(Tail(rows))

RECURSIVE OrderByTotalVotes(_)
\* ORDER BY total_votes DESC, sc.car_number ASC over (car_number, total_votes) pairs
OrderByTotalVotes(pairs) ==
    IF pairs = {} THEN <<>>
    ELSE LET first == CHOOSE p \in pairs :
                         \A q \in pairs : p[2] > q[2] \/ (p[2] = q[2] /\ p[1] <= q[1])
         IN  <<first>> \o OrderByTotalVotes(pairs \ {first})

\* the result of leaderboard_by_category when the votes table holds vs:
\* category -> the (car_number, total_votes) pairs of its groups, in order
leaderboard_by_category_of(vs, show_id) ==
    LET rows == LeaderboardJoin(vs, show_id)
        categories == {rows[i].category : i \in 1..Len(rows)}
        Group(cat, num) == SelectSeq(rows, LAMBDA x : x.category = cat /\ x.car_number = num)
    IN  [cat \in categories |->
            OrderByTotalVotes({<<rows[i].car_number, SumVoteQty(Group(cat, rows[i].car_number))>> :
                                  i \in {j \in 1..Len(rows) : rows[j].category = cat}})]

leaderboard_by_category(show_id) == leaderboard_by_category_of(votes, show_id)

\* the result of leaderboard_overall when the votes table holds vs: the
\* (car_number, total_votes) pairs of the GROUP BY sc.car_number, in order
leaderboard_overall_of(vs, show_id) ==
    LET rows == LeaderboardJoin(vs, show_id)
        Group(num) == SelectSeq(rows, LAMBDA x : x.car_number = num)
    IN  OrderByTotalVotes({<<rows[i].car_number, SumVoteQty(Group(rows[i].car_number))>> :
                              i \in 1..Len(rows)})

leaderboard_overall(show_id) == leaderboard_overall_of(votes, show_id)

(***************************************************************************)
(* The gateway: stripe.checkout.Session.create and .retrieve.              *)
(***************************************************************************)
\* the id of the next session the gateway creates
NextSessionId == <<"cs", Cardinality(DOMAIN stripe_sessions) + 1>>

GatewayFull == Cardinality(DOMAIN stripe_sessions) >= scenario.sessions

\* the session Session.create(line_items = unit_amount x quantity, metadata) makes
NewCheckoutSession(unit_amount, quantity, metadata) ==
    [payment_status |-> "unpaid",
     metadata |-> metadata,
     amount_total |-> Some(unit_amount * quantity)]

\* sessions of the same gateway account that create_checkout_session did not
\* create: the donation flow's (app.py:518-522), and sessions whose metadata or
\* total differ from what the vote flow writes
ExternalSessions ==
    { \* create_donation_checkout's metadata
      [payment_status |-> "paid", amount_total |-> Some(500),
       metadata |-> [show_id |-> <<"1">>, donation_id |-> <<"1">>, show_slug |-> DefaultSlug]],
      \* no metadata at all
      [payment_status |-> "paid", amount_total |-> Some(100),
       metadata |-> [k \in {} |-> <<>>]],
      \* a quantity that is not a number
      [payment_status |-> "paid", amount_total |-> Some(100),
       metadata |-> [show_id |-> <<"1">>, show_car_id |-> <<"1">>, category |-> "Army",
                     vote_qty |-> <<"a", "b">>]],
      \* a car id that is empty
      [payment_status |-> "paid", amount_total |-> Some(100),
       metadata |-> [show_id |-> <<"1">>, show_car_id |-> <<>>, category |-> "Army",
                     vote_qty |-> <<"1">>]],
      \* an empty category
      [payment_status |-> "paid", amount_total |-> Some(100),
       metadata |-> [show_id |-> <<"1">>, show_car_id |-> <<"1">>, category |-> "",
                     vote_qty |-> <<"1">>]],
      \* a total the gateway reports as null
      [payment_status |-> "paid", amount_total |-> None,
       metadata |-> [show_id |-> <<"1">>, show_car_id |-> <<"1">>, category |-> "Navy",
                     vote_qty |-> <<"4">>]],
      \* a session that needed no payment
      [payment_status |-> "no_payment_required", amount_total |-> Some(0),
       metadata |-> [show_id |-> <<"1">>, show_car_id |-> <<"1">>, category |-> "Army",
                     vote_qty |-> <<"1">>]] }

\* paid sessions of the account whose metadata has every field of the vote
\* flow, with values create_checkout_session would not have written
ForeignSessions ==
    { \* a category that is no display name of CATEGORY_SLUGS
      [payment_status |-> "paid", amount_total |-> Some(100),
       metadata |-> [show_id |-> <<"1">>, show_car_id |-> <<"1">>, category |-> "Best Paint",
                     vote_qty |-> <<"1">>]],
      \* a negative quantity
      [payment_status |-> "paid", amount_total |-> Some(100),
       metadata |-> [show_id |-> <<"1">>, show_car_id |-> <<"1">>, category |-> "Army",
                     vote_qty |-> <<"-", "3">>]],
      \* a quantity above the limit
      [payment_status |-> "paid", amount_total |-> Some(5100),
       metadata |-> [show_id |-> <<"1">>, show_car_id |-> <<"1">>, category |-> "Army",
                     vote_qty |-> <<"5", "1">>]],
      \* a car id of no row of show_cars
      [payment_status |-> "paid", amount_total |-> Some(100),
       metadata |-> [show_id |-> <<"1">>, show_car_id |-> <<"9", "9">>, category |-> "Army",
                     vote_qty |-> <<"1">>]],
      \* a car of another show than show_id
      [payment_status |-> "paid", amount_total |-> Some(200),
       metadata |-> [show_id |-> <<"1">>, show_car_id |-> <<"3">>, category |-> "Army",
                     vote_qty |-> <<"2">>]],
      \* for the other show, a car of the active show whose number the other show lacks
      [payment_status |-> "paid", amount_total |-> Some(100),
       metadata |-> [show_id |-> <<"2">>, show_car_id |-> <<"2">>, category |-> "Army",
                     vote_qty |-> <<"1">>]] }

\* the external session of a ledger run: vote metadata, a null total
LedgerExternals ==
    {x \in ExternalSessions : x.payment_status = "paid" /\ x.amount_total = None}

(***************************************************************************)
(* app.py: helpers.                                                        *)
(***************************************************************************)
\* _require_stripe: TRUE when it aborts with 500
require_stripe_aborts == ~stripe_api_key

\* _maybe_auto_close_voting: the shows table after the hook
maybe_auto_close_voting ==
    IF voting_end = None THEN shows
    ELSE IF get_active_show = {} THEN shows
    ELSE LET show == CHOOSE i \in get_active_show : TRUE
         IN  IF shows[show].voting_open # 1 THEN shows
             ELSE IF now >= voting_end[1] THEN set_show_voting_open(show, FALSE)
             ELSE shows

\* request r moves on to hold r2, without a response yet
Continue(r, r2) ==
    /\ req' = (req (-) SetToBag({r})) (+) SetToBag({r2})
    /\ response' = NoResponse
    /\ rowcount' = -1

\* request r completes with a response
Respond(r, op, resp) ==
    /\ req' = req (-) SetToBag({r})
    /\ response' = Response(op, resp)
    /\ rowcount' = -1

\* request r completes with a response, after a statement that changed n rows of votes
RespondAfterWrite(r, op, resp, n) ==
    /\ req' = req (-) SetToBag({r})
    /\ response' = Response(op, resp)
    /\ rowcount' = n

\* the requests in flight that are at pc
At(pc) == {r \in BagToSet(req) : r.pc = pc}

\* another request than r is inside a write transaction: r's write waits for it
StoreWriteLocked(r) == \E q \in BagToSet(req) : q # r /\ "tx" \in DOMAIN q

(***************************************************************************)
(* Every request: the before_request hook (app.py:198-200).                *)
(***************************************************************************)
before_request ==
    /\ BagCardinality(req) < scenario.workers
    /\ shows' = maybe_auto_close_voting
    /\ req' = req (+) SetToBag({AtHandler})
    /\ response' = NoResponse
    /\ rowcount' = -1
    /\ UNCHANGED <<config, now, registry, votes, stripe_sessions, created, failed, origin>>

(***************************************************************************)
(* POST /create-checkout-session (app.py:589-650).                         *)
(* form: [show_slug, car_token, category_slug, vote_qty], vote_qty None    *)
(* when the field is absent.                                               *)
(***************************************************************************)
\* request.form.get("vote_qty", "1").strip()
QtyRaw(form) == IF form.vote_qty = None THEN <<"1">> ELSE Strip(form.vote_qty[1])

\* the checks with a change: "voting" drops the voting_open check, "category"
\* looks the car up before it checks the category, "quantity" drops the upper limit
CheckoutValidationWith(form, change) ==
    LET show == get_show_by_slug(form.show_slug)
        show_id == CHOOSE i \in show : TRUE
        car == get_show_car_public_by_token(show_id, form.car_token)
        qty == PyInt(QtyRaw(form))
    IN  IF require_stripe_aborts THEN "stripe_not_configured"
        ELSE IF show = {} THEN "show_not_found"
        ELSE IF change # "voting" /\ shows[show_id].voting_open # 1 THEN "voting_closed"
        ELSE IF change = "category" /\ car = {} THEN "car_not_found"
        ELSE IF form.category_slug \notin DOMAIN CATEGORY_SLUGS THEN "invalid_category"
        ELSE IF car = {} THEN "car_not_found"
        ELSE IF ~qty.ok THEN "invalid_vote_quantity"
        ELSE IF qty.val < MIN_VOTE_QTY \/ (change # "quantity" /\ qty.val > MAX_VOTE_QTY)
             THEN "vote_quantity_out_of_range"
        ELSE "proceed"

CheckoutValidation_no_voting_check(form) == CheckoutValidationWith(form, "voting")
CheckoutValidation_car_before_category(form) == CheckoutValidationWith(form, "category")
CheckoutValidation_no_upper_limit(form) == CheckoutValidationWith(form, "quantity")

\* the checks of lines 591-618 in their order: the rejection, or "proceed"
CheckoutValidation(form) ==
    LET show == get_show_by_slug(form.show_slug)
        show_id == CHOOSE i \in show : TRUE
        car == get_show_car_public_by_token(show_id, form.car_token)
        qty == PyInt(QtyRaw(form))
    IN  IF require_stripe_aborts THEN "stripe_not_configured"
        ELSE IF show = {} THEN "show_not_found"
        ELSE IF shows[show_id].voting_open # 1 THEN "voting_closed"
        ELSE IF form.category_slug \notin DOMAIN CATEGORY_SLUGS THEN "invalid_category"
        ELSE IF car = {} THEN "car_not_found"
        ELSE IF ~qty.ok THEN "invalid_vote_quantity"
        ELSE IF qty.val < MIN_VOTE_QTY \/ qty.val > MAX_VOTE_QTY THEN "vote_quantity_out_of_range"
        ELSE "proceed"

\* metadata that carries the category's slug in place of its display name
CheckoutLocals_category_slug(form) ==
    LET show_id == CHOOSE i \in get_show_by_slug(form.show_slug) : TRUE
        car == CHOOSE c \in get_show_car_public_by_token(show_id, form.car_token) : TRUE
    IN  [pc |-> "stripe_create",
         validated |-> [show_id |-> show_id, show_car_id |-> car.id,
                        category |-> CATEGORY_SLUGS[form.category_slug],
                        vote_qty |-> PyInt(QtyRaw(form)).val],
         unit_amount |-> VOTE_PRICE_CENTS,
         quantity |-> PyInt(QtyRaw(form)).val,
         metadata |-> [show_id |-> PyStr(show_id),
                       show_car_id |-> PyStr(car.id),
                       category |-> form.category_slug,
                       vote_qty |-> PyStr(PyInt(QtyRaw(form)).val)]]

\* what the handler holds when it calls the gateway (lines 625-648)
CheckoutLocals(form) ==
    LET show_id == CHOOSE i \in get_show_by_slug(form.show_slug) : TRUE
        car == CHOOSE c \in get_show_car_public_by_token(show_id, form.car_token) : TRUE
    IN  [pc |-> "stripe_create",
         validated |-> [show_id |-> show_id, show_car_id |-> car.id,
                        category |-> CATEGORY_SLUGS[form.category_slug],
                        vote_qty |-> PyInt(QtyRaw(form)).val],
         unit_amount |-> VOTE_PRICE_CENTS,
         quantity |-> PyInt(QtyRaw(form)).val,
         metadata |-> [show_id |-> PyStr(show_id),
                       show_car_id |-> PyStr(car.id),
                       category |-> CATEGORY_SLUGS[form.category_slug],
                       vote_qty |-> PyStr(PyInt(QtyRaw(form)).val)]]

\* the request is validated: rejected, or on its way to the gateway
create_checkout_session(form) ==
    /\ BagIn(AtHandler, req)
    /\ IF CheckoutValidation(form) = "proceed"
       THEN Continue(AtHandler, CheckoutLocals(form))
       ELSE Respond(AtHandler, "create_checkout_session", CheckoutValidation(form))
    /\ UNCHANGED <<config, now, shows, registry, votes, stripe_sessions, created, failed, origin>>

\* stripe.checkout.Session.create returns the new session
create_checkout_session_create(r) ==
    /\ r \in At("stripe_create")
    /\ ~GatewayFull
    /\ stripe_sessions' =
          [id \in DOMAIN stripe_sessions \cup {NextSessionId} |->
              IF id = NextSessionId
              THEN NewCheckoutSession(r.unit_amount, r.quantity, r.metadata)
              ELSE stripe_sessions[id]]
    /\ origin' = [origin EXCEPT ![NextSessionId] = Some(r.validated)]
    /\ Respond(r, "create_checkout_session", "checkout_url")
    /\ UNCHANGED <<config, now, shows, registry, votes, created, failed>>

\* stripe.checkout.Session.create raises: the request ends in a 500
create_checkout_session_error(r) ==
    /\ r \in At("stripe_create")
    /\ Respond(r, "create_checkout_session", "stripe_error")
    /\ UNCHANGED <<config, now, shows, registry, votes, stripe_sessions, created, failed, origin>>

(***************************************************************************)
(* GET /success (app.py:653-683): the reconciliation.                      *)
(* session_id: the query parameter, <<>> when missing or empty.            *)
(***************************************************************************)
\* md.get(key, default)
MdGet(md, key, default) == IF key \in DOMAIN md THEN md[key] ELSE default

\* a default of "1" in place of "0"
MdInt_default_one(md, key) ==
    LET v == MdGet(md, key, <<"1">>)
    IN  PyInt(IF v = <<>> THEN <<"1">> ELSE v)

\* int(md.get(key, "0") or "0")
MdInt(md, key) ==
    LET v == MdGet(md, key, <<"0">>)
    IN  PyInt(IF v = <<>> THEN <<"0">> ELSE v)

\* the checks without the one of payment_status
ReconcileValidation_no_paid_check(session_id) ==
    LET sess == stripe_sessions[session_id]
        md == sess.metadata
    IN  IF require_stripe_aborts THEN "stripe_not_configured"
        ELSE IF session_id = <<>> THEN "missing_session_id"
        ELSE IF session_id \notin DOMAIN stripe_sessions THEN "stripe_error"
        ELSE IF ~(MdInt(md, "show_id").ok /\ MdInt(md, "show_car_id").ok
                  /\ MdInt(md, "vote_qty").ok) THEN "internal_server_error"
        ELSE IF ~(MdInt(md, "show_id").val # 0 /\ MdInt(md, "show_car_id").val # 0
                  /\ MdGet(md, "category", "") # "" /\ MdInt(md, "vote_qty").val # 0)
             THEN "invalid_metadata"
        ELSE "proceed"

\* the checks with one more: the show of the metadata must have its voting open
ReconcileValidation_voting_check(session_id) ==
    LET sess == stripe_sessions[session_id]
        md == sess.metadata
        show_id == MdInt(md, "show_id")
    IN  IF require_stripe_aborts THEN "stripe_not_configured"
        ELSE IF session_id = <<>> THEN "missing_session_id"
        ELSE IF session_id \notin DOMAIN stripe_sessions THEN "stripe_error"
        ELSE IF sess.payment_status # "paid" THEN "payment_not_complete"
        ELSE IF ~(show_id.ok /\ MdInt(md, "show_car_id").ok /\ MdInt(md, "vote_qty").ok)
             THEN "internal_server_error"
        ELSE IF ~(show_id.val # 0 /\ MdInt(md, "show_car_id").val # 0
                  /\ MdGet(md, "category", "") # "" /\ MdInt(md, "vote_qty").val # 0)
             THEN "invalid_metadata"
        ELSE IF show_id.val \in DOMAIN shows /\ shows[show_id.val].voting_open # 1
             THEN "voting_closed"
        ELSE "proceed"

\* lines 655-672 in their order: the response that ends the request, or "proceed"
ReconcileValidation(session_id) ==
    LET sess == stripe_sessions[session_id]
        md == sess.metadata
        show_id == MdInt(md, "show_id")
        show_car_id == MdInt(md, "show_car_id")
        category == MdGet(md, "category", "")
        vote_qty == MdInt(md, "vote_qty")
    IN  IF require_stripe_aborts THEN "stripe_not_configured"
        ELSE IF session_id = <<>> THEN "missing_session_id"
        ELSE IF session_id \notin DOMAIN stripe_sessions THEN "stripe_error"
        ELSE IF sess.payment_status # "paid" THEN "payment_not_complete"
        ELSE IF ~(show_id.ok /\ show_car_id.ok /\ vote_qty.ok) THEN "internal_server_error"
        ELSE IF ~(show_id.val # 0 /\ show_car_id.val # 0 /\ category # "" /\ vote_qty.val # 0)
             THEN "invalid_metadata"
        ELSE "proceed"

\* what the handler passes to record_paid_votes (lines 674-681)
ReconcileLocals(session_id) ==
    LET sess == stripe_sessions[session_id]
        md == sess.metadata
    IN  [pc |-> "record",
         show_id |-> MdInt(md, "show_id").val,
         show_car_id |-> MdInt(md, "show_car_id").val,
         category |-> MdGet(md, "category", ""),
         vote_qty |-> MdInt(md, "vote_qty").val,
         amount_cents |-> IF sess.amount_total = None THEN 0 ELSE sess.amount_total[1],
         stripe_session_id |-> session_id]

\* the session is retrieved and its metadata read
vote_success(session_id) ==
    /\ BagIn(AtHandler, req)
    /\ IF ReconcileValidation(session_id) = "proceed"
       THEN Continue(AtHandler, ReconcileLocals(session_id))
       ELSE Respond(AtHandler, "vote_success", ReconcileValidation(session_id))
    /\ UNCHANGED <<config, now, shows, registry, votes, stripe_sessions, created, failed, origin>>

\* a failed retrieval that leaves a row for the session behind
vote_success_retrieve_error_leaves_row(session_id) ==
    /\ BagIn(AtHandler, req)
    /\ ~require_stripe_aborts
    /\ session_id # <<>>
    /\ Respond(AtHandler, "vote_success", "stripe_error")
    /\ failed' = failed \cup {session_id}
    /\ votes' = Append(votes, VoteRow(1, 1, "pending", 1, 0, session_id))
    /\ UNCHANGED <<config, now, shows, registry, stripe_sessions, created, origin>>

\* stripe.checkout.Session.retrieve raises (gateway unreachable, timeout, error):
\* nothing catches it, the request ends with status 500
vote_success_retrieve_error(session_id) ==
    /\ BagIn(AtHandler, req)
    /\ ~require_stripe_aborts
    /\ session_id # <<>>
    /\ Respond(AtHandler, "vote_success", "stripe_error")
    /\ failed' = failed \cup {session_id}
    /\ UNCHANGED <<config, now, shows, registry, votes, stripe_sessions, created, origin>>

\* record_paid_votes, then the success page
vote_success_record(r) ==
    /\ r \in At("record")
    /\ votes' = record_paid_votes(r.show_id, r.show_car_id, r.category,
                                  r.vote_qty, r.amount_cents, r.stripe_session_id)
    /\ created' = IF Len(votes') > Len(votes)
                  THEN [created EXCEPT ![r.stripe_session_id] = IF @ = 0 THEN 1 ELSE 2]
                  ELSE created
    /\ RespondAfterWrite(r, "vote_success", "vote_success", Len(votes') - Len(votes))
    /\ UNCHANGED <<config, now, shows, registry, stripe_sessions, failed, origin>>

(***************************************************************************)
(* The admin's voting controls and reset (app.py:767-810), behind          *)
(* require_admin (app.py:166-173).                                         *)
(***************************************************************************)
\* an admin route requested without the admin session
require_admin_redirect ==
    /\ BagIn(AtHandler, req)
    /\ Respond(AtHandler, "admin", "redirect_login")
    /\ UNCHANGED <<config, now, shows, registry, votes, stripe_sessions, created, failed, origin>>

admin_toggle_voting ==
    /\ BagIn(AtHandler, req)
    /\ shows' = IF get_active_show = {} THEN shows
                ELSE toggle_show_voting(CHOOSE i \in get_active_show : TRUE)
    /\ Respond(AtHandler, "admin_toggle_voting", "redirect_admin")
    /\ UNCHANGED <<config, now, registry, votes, stripe_sessions, created, failed, origin>>

admin_open_voting ==
    /\ BagIn(AtHandler, req)
    /\ shows' = IF get_active_show = {} THEN shows
                ELSE set_show_voting_open(CHOOSE i \in get_active_show : TRUE, TRUE)
    /\ Respond(AtHandler, "admin_open_voting", "redirect_admin")
    /\ UNCHANGED <<config, now, registry, votes, stripe_sessions, created, failed, origin>>

admin_close_voting ==
    /\ BagIn(AtHandler, req)
    /\ shows' = IF get_active_show = {} THEN shows
                ELSE set_show_voting_open(CHOOSE i \in get_active_show : TRUE, FALSE)
    /\ Respond(AtHandler, "admin_close_voting", "redirect_admin")
    /\ UNCHANGED <<config, now, registry, votes, stripe_sessions, created, failed, origin>>

\* admin_reset_votes up to build_snapshot_zip_bytes: the snapshot is built
admin_reset_votes ==
    /\ BagIn(AtHandler, req)
    /\ IF get_active_show = {}
       THEN Respond(AtHandler, "admin_reset_votes", "no_active_show")
       ELSE LET show == CHOOSE i \in get_active_show : TRUE
            IN  Continue(AtHandler, [pc |-> "reset", show_id |-> show,
                                     snapshot |-> export_votes_for_show(show)])
    /\ UNCHANGED <<config, now, shows, registry, votes, stripe_sessions, created, failed, origin>>

\* reset_votes_for_show, then the snapshot is sent
admin_reset_votes_delete(r) ==
    /\ r \in At("reset")
    /\ votes' = reset_votes_for_show(r.show_id)
    /\ RespondAfterWrite(r, "admin_reset_votes", "snapshot_zip", Len(votes) - Len(votes'))
    /\ UNCHANGED <<config, now, shows, registry, stripe_sessions, created, failed, origin>>

(***************************************************************************)
(* The admin's reports (app.py:814-876), behind require_admin.             *)
(***************************************************************************)
\* admin_leaderboard up to leaderboard_by_category: the first of its two reads
admin_leaderboard ==
    /\ BagIn(AtHandler, req)
    /\ IF get_active_show = {}
       THEN Respond(AtHandler, "admin_leaderboard", "no_active_show")
       ELSE LET show == CHOOSE i \in get_active_show : TRUE
            IN  Continue(AtHandler, [pc |-> "leaderboard_overall", show_id |-> show,
                                     by_cat |-> leaderboard_by_category(show)])
    /\ UNCHANGED <<config, now, shows, registry, votes, stripe_sessions, created, failed, origin>>

\* leaderboard_overall, then the page with both rankings
admin_leaderboard_overall(r) ==
    /\ r \in At("leaderboard_overall")
    /\ req' = req (-) SetToBag({r})
    /\ response' = [op |-> "admin_leaderboard", resp |-> "leaderboard_page",
                    show_id |-> r.show_id, by_category |-> r.by_cat,
                    overall |-> leaderboard_overall(r.show_id)]
    /\ rowcount' = -1
    /\ UNCHANGED <<config, now, shows, registry, votes, stripe_sessions, created, failed, origin>>

\* an export that removes from the ledger the rows it has read
admin_export_votes_consuming ==
    /\ BagIn(AtHandler, req)
    /\ get_active_show # {}
    /\ LET show == CHOOSE i \in get_active_show : TRUE
       IN  /\ req' = req (-) SetToBag({AtHandler})
           /\ response' = [op |-> "admin_export_votes", resp |-> "votes_export_csv",
                           show_id |-> show, rows |-> export_votes_for_show(show)]
           /\ votes' = reset_votes_for_show(show)
           /\ rowcount' = -1
    /\ UNCHANGED <<config, now, shows, registry, stripe_sessions, created, failed, origin>>

\* export_votes_for_show, then its rows as the lines of the CSV file
admin_export_votes ==
    /\ BagIn(AtHandler, req)
    /\ IF get_active_show = {}
       THEN Respond(AtHandler, "admin_export_votes", "no_active_show")
       ELSE LET show == CHOOSE i \in get_active_show : TRUE
            IN  /\ req' = req (-) SetToBag({AtHandler})
                /\ response' = [op |-> "admin_export_votes", resp |-> "votes_export_csv",
                                show_id |-> show, rows |-> export_votes_for_show(show)]
                /\ rowcount' = -1
    /\ UNCHANGED <<config, now, shows, registry, votes, stripe_sessions, created, failed, origin>>

(***************************************************************************)
(* The rest of the site: car registration (app.py:270-310), check-in       *)
(* (app.py:345-383) and the donation flow (app.py:464-548), with the store *)
(* operations they call.  Columns of people and show_cars that no handler  *)
(* modelled here reads back (name, phone, year, model) are not carried.    *)
(***************************************************************************)
\* the ids AUTOINCREMENT gives the next row of people and of show_cars
NewPersonId == (CHOOSE m \in people : \A p \in people : p <= m) + 1

NewShowCarId ==
    LET ids == {c.id : c \in show_cars}
    IN  (CHOOSE m \in ids : \A i \in ids : i <= m) + 1

\* _new_car_token: a fresh random token, here one per row id
NewCarToken(id) ==
    CASE id = 4 -> "tok-d"
      [] id = 5 -> "tok-e"
      [] id = 6 -> "tok-f"
      [] OTHER -> "tok-g"

\* a table show_cars without its UNIQUE(show_id, car_number)
CarNumberTaken_no_index(show_id, car_number) == FALSE

\* UNIQUE(show_id, car_number): would this INSERT INTO show_cars raise IntegrityError
CarNumberTaken(show_id, car_number) ==
    \E c \in show_cars : c.show_id = show_id /\ c.car_number = car_number

\* the table show_cars after create_show_car's INSERT
create_show_car(show_id, person_id, car_number, make) ==
    show_cars \cup {[id |-> NewShowCarId, show_id |-> show_id, person_id |-> person_id,
                     car_number |-> car_number, car_token |-> NewCarToken(NewShowCarId),
                     make |-> make]}

\* the table show_cars after update_show_car_details
update_show_car_details(show_car_id, make) ==
    {IF c.id = show_car_id THEN [c EXCEPT !.make = make] ELSE c : c \in show_cars}

\* the car of this show with this token, with its owner's columns
get_show_car_private_by_token(show_id, car_token) ==
    {c \in show_cars : c.show_id = show_id /\ c.car_token = car_token /\ c.person_id \in people}

\* the checks of register_submit in their order: the error page, or "proceed"
RegisterValidation(form) ==
    LET car_number_raw == Strip(form.car_number)
    IN  IF get_active_show = {} THEN "no_active_show"
        ELSE IF ~(form.filled /\ car_number_raw # <<>>) THEN "required_fields"
        ELSE IF ~PyInt(car_number_raw).ok THEN "car_number_not_positive"
        ELSE IF PyInt(car_number_raw).val <= 0 THEN "car_number_not_positive"
        ELSE "proceed"

\* the form is validated and create_person commits the owner's row
register_submit(form) ==
    /\ BagIn(AtHandler, req)
    /\ IF RegisterValidation(form) = "proceed"
       THEN /\ ~StoreWriteLocked(AtHandler)
            /\ Cardinality(people) < MaxPeople
            /\ Cardinality(show_cars) < MaxCars
            /\ people' = people \cup {NewPersonId}
            /\ Continue(AtHandler, [pc |-> "create_show_car",
                                    show_id |-> CHOOSE i \in get_active_show : TRUE,
                                    person_id |-> NewPersonId,
                                    car_number |-> PyInt(Strip(form.car_number)).val,
                                    make |-> form.make])
       ELSE /\ Respond(AtHandler, "register_submit", RegisterValidation(form))
            /\ UNCHANGED people
    /\ UNCHANGED <<config, now, shows, show_cars, donations, votes, stripe_sessions, created, failed, origin>>

\* create_show_car: the car's row, or the error page when the number is taken
register_submit_create_show_car(r) ==
    /\ r \in At("create_show_car")
    /\ ~StoreWriteLocked(r)
    /\ IF CarNumberTaken(r.show_id, r.car_number)
       THEN /\ Respond(r, "register_submit", "car_number_taken")
            /\ UNCHANGED show_cars
       ELSE /\ Cardinality(show_cars) < MaxCars
            /\ show_cars' = create_show_car(r.show_id, r.person_id, r.car_number, r.make)
            /\ Respond(r, "register_submit", "redirect_registration_complete")
    /\ UNCHANGED <<config, now, shows, people, donations, votes, stripe_sessions, created, failed, origin>>

\* the checks of checkin_submit in their order: the rejection, or "proceed"
CheckinValidation(form) ==
    LET show == get_show_by_slug(form.show_slug)
        show_id == CHOOSE i \in show : TRUE
    IN  IF show = {} THEN "show_not_found"
        ELSE IF get_show_car_private_by_token(show_id, form.car_token) = {} THEN "car_not_found"
        ELSE IF ~form.filled THEN "required_fields"
        ELSE "proceed"

\* check-in: update_person (columns not carried here), then update_show_car_details
checkin_submit(form) ==
    /\ BagIn(AtHandler, req)
    /\ IF CheckinValidation(form) = "proceed"
       THEN LET show_id == CHOOSE i \in get_show_by_slug(form.show_slug) : TRUE
                car == CHOOSE c \in get_show_car_private_by_token(show_id, form.car_token) : TRUE
            IN  /\ show_cars' = update_show_car_details(car.id, form.make)
                /\ Respond(AtHandler, "checkin_submit", "checkin_complete")
       ELSE /\ Respond(AtHandler, "checkin_submit", CheckinValidation(form))
            /\ UNCHANGED show_cars
    /\ UNCHANGED <<config, now, shows, people, donations, votes, stripe_sessions, created, failed, origin>>

\* int(round(max(float(amount_raw), 0.0) * 100)), for amounts written as whole
\* dollars (float and int read those alike); text that is no number counts as 0
DonationCents(amount_raw) ==
    LET dollars == PyInt(amount_raw)
    IN  IF dollars.ok /\ dollars.val > 0 THEN dollars.val * 100 ELSE 0

\* the table donations after create_donation_row's INSERT
create_donation_row(show_id, attendee_id, amount_cents, status) ==
    Append(donations, [id |-> Len(donations) + 1, show_id |-> show_id,
                       attendee_id |-> attendee_id, amount_cents |-> amount_cents,
                       status |-> status, stripe_session_id |-> None])

\* the table donations after attach_stripe_session_to_donation's UPDATE
attach_stripe_session_to_donation(donation_id, stripe_session_id) ==
    [i \in DOMAIN donations |->
        IF donations[i].id = donation_id
        THEN [donations[i] EXCEPT !.stripe_session_id = Some(stripe_session_id)]
        ELSE donations[i]]

\* an UPDATE without the session in its WHERE clause
mark_donation_paid_every_pending(stripe_session_id) ==
    [i \in DOMAIN donations |->
        IF donations[i].status = "pending"
        THEN [donations[i] EXCEPT !.status = "paid"]
        ELSE donations[i]]

\* the table donations after mark_donation_paid's UPDATE ... WHERE stripe_session_id = ?
mark_donation_paid(stripe_session_id) ==
    [i \in DOMAIN donations |->
        IF donations[i].stripe_session_id = Some(stripe_session_id)
        THEN [donations[i] EXCEPT !.status = "paid"]
        ELSE donations[i]]

\* the checks of create_donation_checkout in their order
DonationValidation(form) ==
    IF require_stripe_aborts THEN "stripe_not_configured"
    ELSE IF get_show_by_slug(form.show_slug) = {} THEN "show_not_found"
    ELSE IF ~PyInt(Strip(form.attendee_id)).ok THEN "invalid_attendee"
    ELSE IF DonationCents(Strip(form.amount_dollars)) = 0 THEN "skipped"
    ELSE "proceed"

\* the request is validated; create_donation_row opens its connection and runs
\* its INSERT, which begins the write transaction the request now holds
create_donation_checkout(form) ==
    /\ BagIn(AtHandler, req)
    /\ LET v == DonationValidation(form)
           show_id == CHOOSE i \in get_show_by_slug(form.show_slug) : TRUE
           attendee_id == PyInt(Strip(form.attendee_id)).val
           amount_cents == DonationCents(Strip(form.amount_dollars))
       IN  IF v \in {"proceed", "skipped"}
           THEN /\ Len(donations) < MaxDonations
                /\ Continue(AtHandler,
                            [pc |-> "create_donation_row", tx |-> "write",
                             show_id |-> show_id, show_slug |-> form.show_slug,
                             attendee_id |-> attendee_id, amount_cents |-> amount_cents,
                             status |-> IF v = "proceed" THEN "pending" ELSE "skipped"])
           ELSE Respond(AtHandler, "create_donation_checkout", v)
    /\ UNCHANGED <<config, now, shows, registry, votes, stripe_sessions, created, failed, origin>>

\* create_donation_row ends without its commit and close: the transaction stays open
create_donation_checkout_row_uncommitted(r) ==
    /\ r \in At("create_donation_row")
    /\ r.status = "pending"
    /\ Len(donations) < MaxDonations
    /\ Continue(r, [pc |-> "donation_stripe_create", tx |-> "write",
                    donation_id |-> Len(donations) + 1,
                    unit_amount |-> r.amount_cents,
                    metadata |-> [show_id |-> PyStr(r.show_id),
                                  donation_id |-> PyStr(Len(donations) + 1),
                                  show_slug |-> r.show_slug]])
    /\ UNCHANGED <<config, now, shows, registry, votes, stripe_sessions, created, failed, origin>>

\* create_donation_row commits and closes its connection: the row is in the
\* table; a skipped donation is answered, a pending one goes on to the gateway
create_donation_checkout_row(r) ==
    /\ r \in At("create_donation_row")
    /\ Len(donations) < MaxDonations
    /\ donations' = create_donation_row(r.show_id, r.attendee_id, r.amount_cents, r.status)
    /\ IF r.status = "pending"
       THEN Continue(r, [pc |-> "donation_stripe_create",
                         donation_id |-> Len(donations) + 1,
                         unit_amount |-> r.amount_cents,
                         metadata |-> [show_id |-> PyStr(r.show_id),
                                       donation_id |-> PyStr(Len(donations) + 1),
                                       show_slug |-> r.show_slug]])
       ELSE Respond(r, "create_donation_checkout", "donation_skipped")
    /\ UNCHANGED <<config, now, shows, people, show_cars, votes, stripe_sessions, created, failed, origin>>

\* the gateway creates the donation's session
create_donation_checkout_create(r) ==
    /\ r \in At("donation_stripe_create")
    /\ ~GatewayFull
    /\ stripe_sessions' =
          [id \in DOMAIN stripe_sessions \cup {NextSessionId} |->
              IF id = NextSessionId THEN NewCheckoutSession(r.unit_amount, 1, r.metadata)
              ELSE stripe_sessions[id]]
    /\ Continue(r, [pc |-> "donation_attach", donation_id |-> r.donation_id,
                    stripe_session_id |-> NextSessionId])
    /\ UNCHANGED <<config, now, shows, registry, votes, created, failed, origin>>

\* the gateway call raises: nothing catches it, the request ends with status 500
create_donation_checkout_error(r) ==
    /\ r \in At("donation_stripe_create")
    /\ Respond(r, "create_donation_checkout", "internal_server_error")
    /\ UNCHANGED <<config, now, shows, registry, votes, stripe_sessions, created, failed, origin>>

\* attach_stripe_session_to_donation, then the checkout URL
create_donation_checkout_attach(r) ==
    /\ r \in At("donation_attach")
    /\ donations' = attach_stripe_session_to_donation(r.donation_id, r.stripe_session_id)
    /\ Respond(r, "create_donation_checkout", "checkout_url")
    /\ UNCHANGED <<config, now, shows, people, show_cars, votes, stripe_sessions, created, failed, origin>>

\* the checks of donation_success in their order
DonationSuccessValidation(session_id) ==
    IF require_stripe_aborts THEN "stripe_not_configured"
    ELSE IF session_id = <<>> THEN "missing_session_id"
    ELSE IF session_id \notin DOMAIN stripe_sessions THEN "internal_server_error"
    ELSE IF stripe_sessions[session_id].payment_status # "paid" THEN "payment_not_complete"
    ELSE "proceed"

\* the session is retrieved and its payment status read
donation_success(session_id) ==
    /\ BagIn(AtHandler, req)
    /\ IF DonationSuccessValidation(session_id) = "proceed"
       THEN Continue(AtHandler, [pc |-> "mark_donation_paid", stripe_session_id |-> session_id])
       ELSE Respond(AtHandler, "donation_success", DonationSuccessValidation(session_id))
    /\ UNCHANGED <<config, now, shows, registry, votes, stripe_sessions, created, failed, origin>>

\* mark_donation_paid, then the redirect to the attendee's last page
donation_success_mark(r) ==
    /\ r \in At("mark_donation_paid")
    /\ donations' = mark_donation_paid(r.stripe_session_id)
    /\ Respond(r, "donation_success", "redirect_attendee_done")
    /\ UNCHANGED <<config, now, shows, people, show_cars, votes, stripe_sessions, created, failed, origin>>

(***************************************************************************)
(* POST /admin/placeholders/create (app.py:890-911) and                    *)
(* create_placeholder_cars (database.py:405-438): one connection, one      *)
(* transaction for the whole range.  Its SELECTs run before or inside the  *)
(* transaction; the first INSERT begins it, and from then on SQLite lets   *)
(* no other connection write until the commit.  Rows inserted in the       *)
(* transaction are kept with the request until the commit.                 *)
(***************************************************************************)
\* the checks of admin_placeholders_create: the rejection, or "proceed"
PlaceholderValidation(form) ==
    LET start_number == PyInt(Strip(form.start_number))
        count == PyInt(Strip(form.count))
    IN  IF get_active_show = {} THEN "no_active_show"
        ELSE IF ~start_number.ok \/ ~count.ok THEN "invalid_range"
        ELSE IF start_number.val < 1 \/ count.val < 1 \/ count.val > 1000 THEN "invalid_range"
        ELSE "proceed"

\* the form is validated and create_placeholder_cars starts at start_number
admin_placeholders_create(form) ==
    /\ BagIn(AtHandler, req)
    /\ IF PlaceholderValidation(form) = "proceed"
       THEN Continue(AtHandler, [pc |-> "placeholder_select",
                                 show_id |-> CHOOSE i \in get_active_show : TRUE,
                                 n |-> PyInt(Strip(form.start_number)).val,
                                 stop |-> PyInt(Strip(form.start_number)).val
                                            + PyInt(Strip(form.count)).val,
                                 inserted |-> {}])
       ELSE Respond(AtHandler, "admin_placeholders_create", PlaceholderValidation(form))
    /\ UNCHANGED <<config, now, shows, registry, votes, stripe_sessions, created, failed, origin>>

\* the request as it is after a step of the loop: in the transaction once a row is inserted
PlaceholderLoop(r, pc, n, inserted) ==
    IF inserted = {}
    THEN [pc |-> pc, show_id |-> r.show_id, n |-> n, stop |-> r.stop, inserted |-> inserted]
    ELSE [pc |-> pc, show_id |-> r.show_id, n |-> n, stop |-> r.stop, inserted |-> inserted,
          tx |-> "write"]

\* SELECT 1 FROM show_cars WHERE show_id = ? AND car_number = ?: skip n, or go on to insert it
create_placeholder_cars_select(r) ==
    /\ r \in At("placeholder_select")
    /\ r.n < r.stop
    /\ IF CarNumberTaken(r.show_id, r.n) \/ r.n \in r.inserted
       THEN Continue(r, PlaceholderLoop(r, "placeholder_select", r.n + 1, r.inserted))
       ELSE Continue(r, PlaceholderLoop(r, "placeholder_insert", r.n, r.inserted))
    /\ UNCHANGED <<config, now, shows, registry, votes, stripe_sessions, created, failed, origin>>

\* INSERT INTO people, INSERT INTO show_cars: the row joins the transaction, or
\* UNIQUE(show_id, car_number) raises IntegrityError, which nothing catches:
\* the request ends with status 500 and its transaction is never committed
create_placeholder_cars_insert(r) ==
    /\ r \in At("placeholder_insert")
    /\ ~StoreWriteLocked(r)
    /\ IF CarNumberTaken(r.show_id, r.n)
       THEN Respond(r, "admin_placeholders_create", "internal_server_error")
       ELSE /\ Cardinality(show_cars) + Cardinality(r.inserted) < MaxCars
            /\ Cardinality(people) + Cardinality(r.inserted) < MaxPeople
            /\ Continue(r, PlaceholderLoop(r, "placeholder_select", r.n + 1,
                                           r.inserted \cup {r.n}))
    /\ UNCHANGED <<config, now, shows, registry, votes, stripe_sessions, created, failed, origin>>

RECURSIVE PlaceholderCars(_, _, _)
\* the tables <<people, show_cars>> with the transaction's rows in them
PlaceholderCars(tables, show_id, numbers) ==
    IF numbers = {} THEN tables
    ELSE LET n == CHOOSE m \in numbers : \A k \in numbers : m <= k
             ppl == tables[1]
             cars == tables[2]
             person_id == (CHOOSE m \in ppl : \A p \in ppl : p <= m) + 1
             car_id == (CHOOSE m \in {c.id : c \in cars} : \A c \in cars : c.id <= m) + 1
         IN  PlaceholderCars(<<ppl \cup {person_id},
                               cars \cup {[id |-> car_id, show_id |-> show_id,
                                           person_id |-> person_id, car_number |-> n,
                                           car_token |-> NewCarToken(car_id), make |-> "TBD"]}>>,
                             show_id, numbers \ {n})

\* the end of the range: commit, close, and the redirect with the count
create_placeholder_cars_commit(r) ==
    /\ r \in At("placeholder_select")
    /\ r.n >= r.stop
    /\ people' = PlaceholderCars(<<people, show_cars>>, r.show_id, r.inserted)[1]
    /\ show_cars' = PlaceholderCars(<<people, show_cars>>, r.show_id, r.inserted)[2]
    /\ Respond(r, "admin_placeholders_create", "redirect_admin_placeholders")
    /\ UNCHANGED <<config, now, shows, donations, votes, stripe_sessions, created, failed, origin>>

(***************************************************************************)
(* The environment: the payer, other users of the gateway account, time.   *)
(***************************************************************************)
\* the voter pays on the hosted checkout page
stripe_payment_completed(id) ==
    /\ id \in DOMAIN stripe_sessions
    /\ stripe_sessions[id].payment_status = "unpaid"
    /\ stripe_sessions' = [stripe_sessions EXCEPT ![id].payment_status = "paid"]
    /\ response' = NoResponse
    /\ rowcount' = -1
    /\ UNCHANGED <<config, now, shows, registry, votes, req, created, failed, origin>>

\* a session the vote flow did not create appears in the gateway account
stripe_external_session(sess) ==
    /\ ~GatewayFull
    /\ stripe_sessions' =
          [id \in DOMAIN stripe_sessions \cup {NextSessionId} |->
              IF id = NextSessionId THEN sess ELSE stripe_sessions[id]]
    /\ response' = NoResponse
    /\ rowcount' = -1
    /\ UNCHANGED <<config, now, shows, registry, votes, req, created, failed, origin>>

Tick ==
    /\ now < MaxClock
    /\ now' = now + 1
    /\ response' = NoResponse
    /\ rowcount' = -1
    /\ UNCHANGED <<config, shows, registry, votes, stripe_sessions, req, created, failed, origin>>

(***************************************************************************)
(* The requests the model sends.                                           *)
(***************************************************************************)
ShowSlugInputs == {DefaultSlug, OtherSlug, "no-such-show"}
CarTokenInputs == {"tok-a", "tok-c", "tok-zz"}
CategorySlugInputs == {"army", "bogus"}
VoteQtyInputs ==
    {None, Some(<<>>), Some(<<"x">>), Some(<<"0">>), Some(<<"-", "1">>),
     Some(<<" ", "5", "0">>), Some(<<"5", "1">>), Some(<<"2", ".", "5">>)}

CheckoutForms ==
    [show_slug : ShowSlugInputs, car_token : CarTokenInputs,
     category_slug : CategorySlugInputs, vote_qty : VoteQtyInputs]

\* a checkout of each show, one vote and fifty
LedgerForms ==
    { [show_slug |-> DefaultSlug, car_token |-> "tok-a", category_slug |-> "army",
       vote_qty |-> None],
      [show_slug |-> OtherSlug, car_token |-> "tok-c", category_slug |-> "army",
       vote_qty |-> Some(<<" ", "5", "0">>)] }

\* checkouts of two cars of the active show and of a car of the other show
ReportForms ==
    { [show_slug |-> DefaultSlug, car_token |-> "tok-a", category_slug |-> "army",
       vote_qty |-> None],
      [show_slug |-> DefaultSlug, car_token |-> "tok-a", category_slug |-> "navy",
       vote_qty |-> Some(<<"1">>)],
      [show_slug |-> DefaultSlug, car_token |-> "tok-b", category_slug |-> "army",
       vote_qty |-> Some(<<"2">>)],
      [show_slug |-> OtherSlug, car_token |-> "tok-c", category_slug |-> "army",
       vote_qty |-> Some(<<"1">>)] }

SessionIdInputs == {<<>>} \cup SessionIds

\* the store and the gateway when the server starts
InitStore ==
    /\ now = 0
    /\ people = InitPeople
    /\ show_cars = InitShowCars
    /\ donations = <<>>
    /\ votes = <<>>
    /\ stripe_sessions = [id \in {} |-> 0]
    /\ req = EmptyBag
    /\ response = NoResponse
    /\ created = [id \in SessionIds |-> 0]
    /\ rowcount = -1
    /\ failed = {}
    /\ origin = [id \in SessionIds |-> None]

\* any deployment, every request, one checkout session
Init ==
    /\ scenario = [workers |-> MaxWorkers, sessions |-> MaxSessions,
                   forms |-> CheckoutForms, externals |-> ExternalSessions]
    /\ stripe_api_key \in BOOLEAN
    /\ voting_end \in {None, Some(MaxClock)}
    /\ \E open1, open2 \in {0, 1} : shows = InitShows(open1, open2)
    /\ InitStore

\* a configured deployment without a deadline, valid checkouts of both shows,
\* one more checkout session
InitLedger ==
    /\ scenario = [workers |-> MaxWorkers, sessions |-> MaxSessions + 1,
                   forms |-> LedgerForms, externals |-> LedgerExternals]
    /\ stripe_api_key = TRUE
    /\ voting_end = None
    /\ shows = InitShows(0, 1)
    /\ InitStore

\* every deployment, every checkout form, one request at a time
InitCheckout ==
    /\ scenario = [workers |-> CheckoutWorkers, sessions |-> MaxSessions,
                   forms |-> CheckoutForms, externals |-> ExternalSessions]
    /\ stripe_api_key \in BOOLEAN
    /\ voting_end \in {None, Some(MaxClock)}
    /\ \E open1, open2 \in {0, 1} : shows = InitShows(open1, open2)
    /\ InitStore

\* the row the vote flow commits for a checkout of form, paid in session k of
\* an earlier run: create_checkout_session's metadata, read back by vote_success
PriorVote(form, k) ==
    LET locals == CheckoutLocals(form)
        sess == NewCheckoutSession(locals.unit_amount, locals.quantity, locals.metadata)
    IN  VoteRow(MdInt(sess.metadata, "show_id").val, MdInt(sess.metadata, "show_car_id").val,
                MdGet(sess.metadata, "category", ""), MdInt(sess.metadata, "vote_qty").val,
                sess.amount_total[1], <<"cs", 0 - k>>)

\* the ledgers earlier runs can have left: up to PriorRows paid checkouts
PriorLedgers ==
    UNION {{[k \in 1..n |-> PriorVote(fs[k], k)] : fs \in [1..n -> ReportForms]} :
              n \in 0..PriorRows}

\* a configured deployment without a deadline, both shows open, one request
\* at a time, a ledger of earlier checkouts, sessions of other origin
InitReports ==
    /\ scenario = [workers |-> CheckoutWorkers, sessions |-> MaxSessions,
                   forms |-> ReportForms, externals |-> ForeignSessions]
    /\ stripe_api_key = TRUE
    /\ voting_end = None
    /\ shows = InitShows(1, 1)
    /\ now = 0
    /\ people = InitPeople
    /\ show_cars = InitShowCars
    /\ donations = <<>>
    /\ votes \in PriorLedgers
    /\ stripe_sessions = [id \in {} |-> 0]
    /\ req = EmptyBag
    /\ response = NoResponse
    /\ created = [id \in SessionIds |-> 0]
    /\ rowcount = -1
    /\ failed = {}
    /\ origin = [id \in SessionIds |-> None]

Next ==
    \/ before_request
    \/ \E form \in scenario.forms : create_checkout_session(form)
    \/ \E r \in BagToSet(req) : create_checkout_session_create(r)
    \/ \E r \in BagToSet(req) : create_checkout_session_error(r)
    \/ \E session_id \in SessionIdInputs : vote_success(session_id)
    \/ \E r \in BagToSet(req) : vote_success_record(r)
    \/ require_admin_redirect
    \/ admin_toggle_voting
    \/ admin_open_voting
    \/ admin_close_voting
    \/ admin_reset_votes
    \/ \E r \in BagToSet(req) : admin_reset_votes_delete(r)
    \/ admin_leaderboard
    \/ \E r \in BagToSet(req) : admin_leaderboard_overall(r)
    \/ admin_export_votes
    \/ \E id \in SessionIds : stripe_payment_completed(id)
    \/ \E sess \in scenario.externals : stripe_external_session(sess)
    \/ Tick

Spec == Init /\ [][Next]_vars

SpecLedger == InitLedger /\ [][Next]_vars

SpecCheckout == InitCheckout /\ [][Next]_vars

SpecReports == InitReports /\ [][Next]_vars

\* the forms posted to /register, to /checkin and to /attend/create-donation-checkout
RegisterForms ==
    [filled : BOOLEAN, car_number : {<<>>, <<"x">>, <<"0">>, <<"5">>, <<"9">>}, make : {"Camaro"}]

CheckinForms ==
    [show_slug : {DefaultSlug, "no-such-show"}, car_token : {"tok-a", "tok-zz"},
     filled : BOOLEAN, make : {"Mustang"}]

DonationForms ==
    [show_slug : {DefaultSlug, "no-such-show"}, attendee_id : {<<"1">>, <<"x">>},
     amount_dollars : {<<"5">>, <<"0">>, <<"x">>, <<>>}]

\* the forms of the vote flow that run beside the rest of the site
SiteForms == {f \in ReportForms : f.car_token = "tok-a"}

\* a paid session of other origin naming a car of the other show
SiteExternals == {s \in ForeignSessions : s.metadata.show_car_id = <<"3">>}

\* the ledgers the site starts with: rows of both shows
SiteLedgers ==
    {l \in PriorLedgers : \E i, j \in DOMAIN l : l[i].show_id = 1 /\ l[j].show_id = 2}

\* one worker serving the whole site: the vote flow, the admin's pages,
\* registration, check-in and donations, over a ledger with rows already in it
InitSite ==
    /\ scenario = [workers |-> CheckoutWorkers, sessions |-> MaxSessions,
                   forms |-> SiteForms, externals |-> SiteExternals]
    /\ stripe_api_key = TRUE
    /\ voting_end = None
    /\ now = 0
    /\ shows = InitShows(1, 1)
    /\ people = InitPeople
    /\ show_cars = InitShowCars
    /\ donations = <<>>
    /\ votes \in SiteLedgers
    /\ stripe_sessions = [id \in {} |-> 0]
    /\ req = EmptyBag
    /\ response = NoResponse
    /\ created = [id \in SessionIds |-> 0]
    /\ rowcount = -1
    /\ failed = {}
    /\ origin = [id \in SessionIds |-> None]

\* a step of the site: a step of the vote flow or of one of the other handlers
NextSite ==
    \/ Next
    \/ \E form \in RegisterForms : register_submit(form)
    \/ \E r \in At("create_show_car") : register_submit_create_show_car(r)
    \/ \E form \in CheckinForms : checkin_submit(form)
    \/ \E form \in DonationForms : create_donation_checkout(form)
    \/ \E r \in At("create_donation_row") : create_donation_checkout_row(r)
    \/ \E r \in At("donation_stripe_create") : create_donation_checkout_create(r)
    \/ \E r \in At("donation_stripe_create") : create_donation_checkout_error(r)
    \/ \E r \in At("donation_attach") : create_donation_checkout_attach(r)
    \/ \E session_id \in SessionIdInputs : donation_success(session_id)
    \/ \E r \in At("mark_donation_paid") : donation_success_mark(r)

SpecSite == InitSite /\ [][NextSite]_vars

\* the forms posted to /admin/placeholders/create
PlaceholderForms ==
    [start_number : {<<"5">>, <<"9">>, <<"0">>}, count : {<<"1">>, <<"2">>, <<"x">>}]

\* the forms of /register that name a car number
CarForms == {f \in RegisterForms : f.filled /\ PyInt(f.car_number).ok}

\* two workers serving registrations and the admin's placeholder ranges
InitCars ==
    /\ scenario = [workers |-> MaxWorkers, sessions |-> MaxSessions,
                   forms |-> {}, externals |-> {}]
    /\ stripe_api_key = TRUE
    /\ voting_end = None
    /\ shows = InitShows(1, 1)
    /\ InitStore

\* a step of the car registry: a request arrives, a registration or a
\* placeholder range moves on
NextCars ==
    \/ before_request
    \/ require_admin_redirect
    \/ \E form \in CarForms : register_submit(form)
    \/ \E r \in At("create_show_car") : register_submit_create_show_car(r)
    \/ \E form \in PlaceholderForms : admin_placeholders_create(form)
    \/ \E r \in At("placeholder_select") : create_placeholder_cars_select(r)
    \/ \E r \in At("placeholder_insert") : create_placeholder_cars_insert(r)
    \/ \E r \in At("placeholder_select") : create_placeholder_cars_commit(r)

SpecCars == InitCars /\ [][NextCars]_vars

\* a configured deployment whose VOTING_END has passed when the run starts:
\* every request of the run arrives after the deadline
InitDeadline ==
    /\ scenario = [workers |-> MaxWorkers, sessions |-> MaxSessions,
                   forms |-> LedgerForms, externals |-> LedgerExternals]
    /\ stripe_api_key = TRUE
    /\ voting_end = Some(0)
    /\ \E open1, open2 \in {0, 1} : shows = InitShows(open1, open2)
    /\ InitStore

SpecDeadline == InitDeadline /\ [][Next]_vars

\* a step of the vote flow, or a retrieval that fails at the gateway
NextOutage ==
    \/ Next
    \/ \E session_id \in SessionIds : vote_success_retrieve_error(session_id)

\* a configured deployment without a deadline, both shows open, valid
\* checkouts, one checkout session, a gateway that can fail
InitOutage ==
    /\ scenario = [workers |-> MaxWorkers, sessions |-> MaxSessions,
                   forms |-> LedgerForms, externals |-> LedgerExternals]
    /\ stripe_api_key = TRUE
    /\ voting_end = None
    /\ shows = InitShows(1, 1)
    /\ InitStore

SpecOutage == InitOutage /\ [][NextOutage]_vars


(***************************************************************************)
(* What the properties below speak of.                                     *)
(***************************************************************************)
\* the positions of the ledger rows that carry a session id
RowsOf(vs, stripe_session_id) ==
    {i \in 1..Len(vs) : vs[i].stripe_session_id = stripe_session_id}

RECURSIVE CountedQty(_, _, _, _)
\* the votes a session contributes to the sum of a car and a category
CountedQty(vs, show_car_id, category, stripe_session_id) ==
    IF vs = <<>> THEN 0
    ELSE (IF /\ Head(vs).show_car_id = show_car_id
             /\ Head(vs).category = category
             /\ Head(vs).stripe_session_id = stripe_session_id
          THEN Head(vs).vote_qty ELSE 0)
         + CountedQty(Tail(vs), show_car_id, category, stripe_session_id)

\* the handler asked the gateway for the session and got it
Retrieved(session_id) == stripe_api_key /\ session_id \in DOMAIN stripe_sessions

\* the request at the handler ends with resp: nothing goes on to the gateway,
\* the store and the gateway's sessions stay as they are
Rejects(op, resp) ==
    /\ response' = Response(op, resp)
    /\ req' = req (-) SetToBag({AtHandler})
    /\ stripe_sessions' = stripe_sessions
    /\ UNCHANGED <<shows, people, show_cars, donations, votes>>

ShowExists(form) == \E i \in DOMAIN shows : shows[i].slug = form.show_slug
VotingOpen(form) ==
    \E i \in DOMAIN shows : shows[i].slug = form.show_slug /\ shows[i].voting_open = 1
VotingClosed(form) ==
    \E i \in DOMAIN shows : shows[i].slug = form.show_slug /\ shows[i].voting_open # 1
CategoryValid(form) == form.category_slug \in DOMAIN CATEGORY_SLUGS
CarInShow(form) ==
    \E i \in DOMAIN shows : \E c \in show_cars :
        shows[i].slug = form.show_slug /\ c.show_id = i /\ c.car_token = form.car_token

\* the vote_qty field is sent and is not an integer of 1..50
BadQuantity(form) ==
    /\ form.vote_qty # None
    /\ LET q == PyInt(Strip(form.vote_qty[1]))
       IN  ~q.ok \/ q.val < 1 \/ q.val > 50

QuantityErrors == {"invalid_vote_quantity", "vote_quantity_out_of_range"}
CheckoutRejections ==
    {"stripe_not_configured", "show_not_found", "voting_closed", "invalid_category",
     "car_not_found"} \cup QuantityErrors

\* a metadata field that is absent, empty, not a number, or zero
FieldMalformed(md, key) ==
    \/ key \notin DOMAIN md
    \/ md[key] = <<>>
    \/ ~PyInt(md[key]).ok
    \/ PyInt(md[key]).val = 0

MetadataMalformed(md) ==
    \/ \E key \in {"show_id", "show_car_id", "vote_qty"} : FieldMalformed(md, key)
    \/ "category" \notin DOMAIN md
    \/ md["category"] = ""

(***************************************************************************)
(* Reconciliation and the ledger.                                          *)
(***************************************************************************)
\* C1: whenever a reconciliation of a paid session completes, whether its
\* insert hit an existing row or not and whatever other reconciliation of the
\* same session runs beside it, the ledger holds exactly one row with that
\* session id, and the session's quantity counts once for its car and category.
C1_ReconciledOnce ==
    [][\A r \in At("record") :
          vote_success_record(r) =>
             /\ Cardinality(RowsOf(votes', r.stripe_session_id)) = 1
             /\ CountedQty(votes', r.show_car_id, r.category, r.stripe_session_id)
                   = r.vote_qty]_vars

\* one reconciliation has recorded the session while another, of the same
\* session, is past its checks and about to insert
C1_Racing ==
    /\ response = Response("vote_success", "vote_success")
    /\ \E r \in At("record") : RowsOf(votes, r.stripe_session_id) # {}

\* C2: a reconciliation that retrieves a session whose payment_status is not
\* "paid" leaves the ledger as it was, records nothing later, and answers
\* payment-not-complete.
C2_NotPaidNoRow ==
    [][\A session_id \in SessionIds :
          (/\ vote_success(session_id)
           /\ Retrieved(session_id)
           /\ stripe_sessions[session_id].payment_status # "paid")
          => Rejects("vote_success", "payment_not_complete")]_vars

\* a session that is not paid was reconciled, and the ledger is empty
C2_NotPaidAnswered ==
    /\ response = Response("vote_success", "payment_not_complete")
    /\ \E id \in DOMAIN stripe_sessions : stripe_sessions[id].payment_status # "paid"
    /\ votes = <<>>

\* C3: over a whole execution, resets of the ledger included, the ledger entry
\* of a session is created at most once.
C3_CreatedAtMostOnce == \A id \in DOMAIN created : created[id] <= 1

\* C4: no two rows of the ledger, whatever their shows, carry the same
\* session id.
C4_SessionIdUnique ==
    \A i, j \in 1..Len(votes) :
        votes[i].stripe_session_id = votes[j].stripe_session_id => i = j

\* rows of two shows are in the ledger, and a reconciliation of a session
\* that has its row is about to insert
C4_TwoShows ==
    /\ \E i, j \in 1..Len(votes) : votes[i].show_id # votes[j].show_id
    /\ \E r \in At("record") : RowsOf(votes, r.stripe_session_id) # {}

(***************************************************************************)
(* The checks of create_checkout_session.                                  *)
(***************************************************************************)
\* C5: with the gateway configured, a checkout request for a show whose
\* voting_open is false is rejected as voting-closed, whatever its category,
\* token and quantity: no gateway session, no write to the store.
C5_ClosedRejected ==
    [][\A form \in scenario.forms :
          (create_checkout_session(form) /\ stripe_api_key /\ VotingClosed(form))
          => Rejects("create_checkout_session", "voting_closed")]_vars

\* a request was rejected as voting-closed
C5_ClosedAnswered ==
    /\ response = Response("create_checkout_session", "voting_closed")
    /\ stripe_api_key
    /\ \E i \in DOMAIN shows : shows[i].voting_open # 1

\* C6, as stated: with the gateway configured, a checkout request whose
\* quantity is not an integer of 1..50 is rejected with an invalid-quantity
\* error and never reaches the gateway.
C6_AlwaysQuantityError ==
    [][\A form \in scenario.forms :
          (create_checkout_session(form) /\ stripe_api_key /\ BadQuantity(form))
          => \E resp \in QuantityErrors : Rejects("create_checkout_session", resp)]_vars

\* C6, amended: a checkout request whose quantity is not an integer of 1..50
\* is always rejected and never reaches the gateway; the rejection is an
\* invalid-quantity error when the gateway is configured, the show exists, its
\* voting is open, the category is valid and the car is found, and the error of
\* the first of these checks to fail otherwise.
C6_BadQuantityRejected ==
    [][\A form \in scenario.forms :
          (create_checkout_session(form) /\ BadQuantity(form))
          => \E resp \in CheckoutRejections :
                /\ Rejects("create_checkout_session", resp)
                /\ (stripe_api_key /\ VotingOpen(form) /\ CategoryValid(form)
                    /\ CarInShow(form)) => resp \in QuantityErrors
                /\ resp \in QuantityErrors =>
                     (stripe_api_key /\ VotingOpen(form) /\ CategoryValid(form)
                      /\ CarInShow(form))]_vars

\* a quantity out of the range was rejected as such
C6_OutOfRangeAnswered ==
    /\ response = Response("create_checkout_session", "vote_quantity_out_of_range")
    /\ stripe_api_key

\* C7: with the gateway configured and the show's voting open, a checkout
\* request whose category slug is not a key of CATEGORY_SLUGS is rejected as
\* invalid category: no gateway session, no write to the store.
C7_BadCategoryRejected ==
    [][\A form \in scenario.forms :
          (/\ create_checkout_session(form)
           /\ stripe_api_key
           /\ VotingOpen(form)
           /\ ~CategoryValid(form))
          => Rejects("create_checkout_session", "invalid_category")]_vars

\* a request was rejected as invalid category
C7_BadCategoryAnswered ==
    /\ response = Response("create_checkout_session", "invalid_category")
    /\ stripe_api_key
    /\ \E i \in DOMAIN shows : shows[i].voting_open = 1

\* C8, as stated: with the gateway configured, a checkout request whose token
\* is of no car of the show named by the slug is rejected as car-not-found,
\* with no gateway session and no write.
C8_AlwaysCarNotFound ==
    [][\A form \in scenario.forms :
          (/\ create_checkout_session(form)
           /\ stripe_api_key
           /\ ShowExists(form)
           /\ ~CarInShow(form))
          => Rejects("create_checkout_session", "car_not_found")]_vars

\* C8, amended: a gateway session is created only for a car registered in the
\* show of the request; a request whose token is of no car of that show is
\* rejected with no gateway session and no write, as car-not-found when the
\* gateway is configured, the voting is open and the category is valid, and
\* with the error of the first of these checks to fail otherwise.
C8_CarOfTheShow ==
    [][/\ \A form \in scenario.forms :
             (create_checkout_session(form) /\ ShowExists(form) /\ ~CarInShow(form))
             => \E resp \in CheckoutRejections :
                   /\ Rejects("create_checkout_session", resp)
                   /\ (stripe_api_key /\ VotingOpen(form) /\ CategoryValid(form))
                         => resp = "car_not_found"
       /\ \A r \in At("stripe_create") :
             create_checkout_session_create(r)
             => \E c \in show_cars :
                   /\ PyStr(c.id) = r.metadata.show_car_id
                   /\ PyStr(c.show_id) = r.metadata.show_id]_vars

\* a request was rejected as car-not-found
C8_CarNotFoundAnswered ==
    /\ response = Response("create_checkout_session", "car_not_found")
    /\ stripe_api_key

(***************************************************************************)
(* The metadata and the amount of a reconciled session.                    *)
(***************************************************************************)
\* C9: a reconciliation that retrieves a paid session whose metadata lacks
\* the show id, the car id, the category or the quantity, or holds one that is
\* empty, not a number or zero, inserts no row and ends in a server error
\* that is not the payment-not-complete answer.
C9_MalformedNoRow ==
    [][\A session_id \in SessionIds :
          (/\ vote_success(session_id)
           /\ Retrieved(session_id)
           /\ stripe_sessions[session_id].payment_status = "paid"
           /\ MetadataMalformed(stripe_sessions[session_id].metadata))
          => \E resp \in {"invalid_metadata", "internal_server_error"} :
                Rejects("vote_success", resp)]_vars

\* a paid session with malformed metadata was reconciled
C9_MalformedAnswered ==
    /\ response = Response("vote_success", "invalid_metadata")
    /\ \E id \in DOMAIN stripe_sessions :
          /\ stripe_sessions[id].payment_status = "paid"
          /\ MetadataMalformed(stripe_sessions[id].metadata)
    /\ votes = <<>>

\* C10: every row of the ledger has an amount of its quantity times
\* VOTE_PRICE_CENTS, whatever total the gateway reported.
C10_AmountIsQtyTimesPrice ==
    \A i \in 1..Len(votes) : votes[i].amount_cents = votes[i].vote_qty * VOTE_PRICE_CENTS


(***************************************************************************)
(* The values of the ledger's rows.                                        *)
(***************************************************************************)
\* C11: the category of every row of the ledger is one of the seven display
\* names of CATEGORY_SLUGS, whatever category the metadata of a paid session
\* holds when it is reconciled.
C11_CategoryInEnumeration ==
    \A i \in 1..Len(votes) : votes[i].category \in CATEGORY_NAMES

\* C12: the quantity of every row of the ledger is an integer of 1..50,
\* whatever quantity the metadata of a paid session holds when it is
\* reconciled, negative or above 50.
C12_QuantityInRange ==
    \A i \in 1..Len(votes) :
        votes[i].vote_qty >= MIN_VOTE_QTY /\ votes[i].vote_qty <= MAX_VOTE_QTY


(***************************************************************************)
(* Reconciliation: closed voting, rows that exist, outcomes.               *)
(***************************************************************************)
\* the show named by a session's metadata has its voting closed
SessionShowClosed(session_id) ==
    LET show_id == PyInt(stripe_sessions[session_id].metadata["show_id"])
    IN  show_id.val \in DOMAIN shows /\ shows[show_id.val].voting_open # 1

\* the request at the handler goes on to record_paid_votes for the session
GoesOnToRecord(session_id) ==
    \E r2 \in BagToSet(req') :
        /\ r2.pc = "record"
        /\ r2.stripe_session_id = session_id
        /\ req' = (req (-) SetToBag({AtHandler})) (+) SetToBag({r2})

\* C13: a reconciliation of a paid session with well-formed metadata goes on
\* to the insert although the voting of the session's show is closed, and the
\* insert of a session that has no row yet commits its row although the
\* voting is closed.
C13_ClosedStillCommits ==
    [][/\ \A session_id \in SessionIds :
             (/\ vote_success(session_id)
              /\ Retrieved(session_id)
              /\ stripe_sessions[session_id].payment_status = "paid"
              /\ ~MetadataMalformed(stripe_sessions[session_id].metadata)
              /\ SessionShowClosed(session_id))
             => GoesOnToRecord(session_id)
       /\ \A r \in At("record") :
             (/\ vote_success_record(r)
              /\ SessionShowClosed(r.stripe_session_id)
              /\ RowsOf(votes, r.stripe_session_id) = {})
             => /\ Len(votes') = Len(votes) + 1
                /\ votes'[Len(votes')].stripe_session_id = r.stripe_session_id
                /\ votes'[Len(votes')].vote_qty = r.vote_qty]_vars

\* the row of a session the checkout handler created (the only paid sessions
\* of category Army in every deployment) was committed with the voting of its
\* show closed
C13_CommittedWhileClosed ==
    /\ response = Response("vote_success", "vote_success")
    /\ rowcount = 1
    /\ votes # <<>>
    /\ votes[Len(votes)].category = "Army"
    /\ shows[votes[Len(votes)].show_id].voting_open = 0


\* C14: when the insert of a reconciliation finds a row with the session's id,
\* the ledger stays as it is, row for row, and the request is answered with
\* the success page, the answer of every insert, the first one included.
C14_DuplicateIsSuccess ==
    [][\A r \in At("record") :
          vote_success_record(r) =>
             /\ response' = Response("vote_success", "vote_success")
             /\ RowsOf(votes, r.stripe_session_id) # {} => votes' = votes]_vars

\* a reconciliation was answered with the success page after an insert that
\* changed no row
C14_DuplicateAnswered ==
    /\ response = Response("vote_success", "vote_success")
    /\ rowcount = 0
    /\ votes # <<>>


\* C15: the answer a reconciliation gives when its insert committed the row
\* (the success page) is given exactly when this request inserted the row; a
\* request whose insert found the row in place is answered otherwise.
C15_CommittedOnlyWhenInserted ==
    response = Response("vote_success", "vote_success") => rowcount = 1

(***************************************************************************)
(* C16: existing ledger rows are never modified; a step that removes rows  *)
(* is the reset's DELETE and removes only rows of the show being reset; a  *)
(* step that adds a row is the reconciliation of a paid session, which     *)
(* appends one row behind the others; every other step of the site         *)
(* (checkout initiation, voting toggles, registration, check-in,           *)
(* donations, leaderboard, export) leaves the votes table as it was.       *)
(***************************************************************************)
C16_LedgerAppendOnly ==
    [][ \/ votes' = votes
        \/ /\ \E r \in At("record") : vote_success_record(r)
           /\ Len(votes') = Len(votes) + 1
           /\ SubSeq(votes', 1, Len(votes)) = votes
        \/ \E r \in At("reset") :
              /\ admin_reset_votes_delete(r)
              /\ \A i \in DOMAIN votes' : \E j \in DOMAIN votes : votes[j] = votes'[i]
              /\ \A j \in DOMAIN votes :
                    votes[j].show_id # r.show_id => \E i \in DOMAIN votes' : votes'[i] = votes[j]
      ]_vars

\* a donation was paid, a car registered and a car checked in, beside a ledger with rows
C16_SiteUsedBesideLedger ==
    /\ response = Response("donation_success", "redirect_attendee_done")
    /\ \E i \in DOMAIN donations : donations[i].status = "paid"
    /\ \E c \in show_cars : c.id \notin {d.id : d \in InitShowCars}
    /\ \E c \in show_cars : c.make = "Mustang"
    /\ Len(votes) >= PriorRows

(***************************************************************************)
(* C17: reset_votes_for_show(s) leaves no row of show s in the ledger,     *)
(* leaves the rows of every other show as they were and in their order,    *)
(* and changes no show, car or owner record.                               *)
(***************************************************************************)
RowsOfOtherShows(vs, show_id) == SelectSeq(vs, LAMBDA v : v.show_id # show_id)

C17_ResetRemovesShowRows ==
    [][\A r \in At("reset") :
          admin_reset_votes_delete(r) =>
             /\ \A i \in DOMAIN votes' : votes'[i].show_id # r.show_id
             /\ RowsOfOtherShows(votes', r.show_id) = RowsOfOtherShows(votes, r.show_id)
             /\ UNCHANGED <<shows, people, show_cars>>
      ]_vars

\* a reset that deleted rows of its show and left rows of another show behind
C17_ResetLeftOtherShow ==
    /\ response = Response("admin_reset_votes", "snapshot_zip")
    /\ rowcount >= 1
    /\ votes # <<>>

(***************************************************************************)
(* The rankings a ledger calls for, read off the ledger row by row.        *)
(***************************************************************************)
\* the positions of the rows of a show, and of those in one category
ShowRows(show_id) == {i \in DOMAIN votes : votes[i].show_id = show_id}

CategoryRows(show_id, category) == {i \in ShowRows(show_id) : votes[i].category = category}

\* the cars that have a row among the rows at these positions
CarsWithRows(rows) == {c \in show_cars : \E i \in rows : votes[i].show_car_id = c.id}

RECURSIVE QtySum(_)
\* the vote quantities of the rows at these positions, summed
QtySum(rows) ==
    IF rows = {} THEN 0
    ELSE LET i == CHOOSE j \in rows : TRUE
         IN  votes[i].vote_qty + QtySum(rows \ {i})

\* the votes of car c among the rows at these positions
CarTotal(c, rows) == QtySum({i \in rows : votes[i].show_car_id = c.id})

\* ranking lists each car of rows once, with its number and its total, and nothing else
RanksCarsOf(ranking, rows) ==
    /\ Len(ranking) = Cardinality(CarsWithRows(rows))
    /\ \A c \in CarsWithRows(rows) :
          \E k \in DOMAIN ranking : ranking[k] = <<c.car_number, CarTotal(c, rows)>>

\* ranking descends by total and, on equal totals, ascends by car number
RankingOrdered(ranking) ==
    \A k \in 1..(Len(ranking) - 1) :
        \/ ranking[k][2] > ranking[k + 1][2]
        \/ ranking[k][2] = ranking[k + 1][2] /\ ranking[k][1] < ranking[k + 1][1]

(***************************************************************************)
(* C18: for every show and every category that has a row in that show,     *)
(* leaderboard_by_category lists exactly the cars with a row in that       *)
(* category, each with the sum of its vote quantities there, by            *)
(* descending total and ascending car number on ties; a category without   *)
(* an entry counts as an empty list.                                       *)
(***************************************************************************)
C18_CategoryRanking ==
    \A show_id \in ShowIds :
        LET board == leaderboard_by_category(show_id)
            Of(category) == IF category \in DOMAIN board THEN board[category] ELSE <<>>
        IN  /\ \A category \in {votes[i].category : i \in ShowRows(show_id)} :
                  /\ RanksCarsOf(Of(category), CategoryRows(show_id, category))
                  /\ RankingOrdered(Of(category))
            /\ \A category \in DOMAIN board : CategoryRows(show_id, category) # {}

(***************************************************************************)
(* C19: for every show, leaderboard_overall lists exactly the cars with a  *)
(* row in that show, each with its vote quantities summed over all         *)
(* categories, by descending total and ascending car number on ties.       *)
(***************************************************************************)
C19_OverallRanking ==
    \A show_id \in ShowIds :
        /\ RanksCarsOf(leaderboard_overall(show_id), ShowRows(show_id))
        /\ RankingOrdered(leaderboard_overall(show_id))

(***************************************************************************)
(* C20: for every show, export_votes_for_show returns one row for each     *)
(* ledger row of that show and no other row, each with the fields of the   *)
(* row's car and owner, in non-decreasing order of creation time.          *)
(***************************************************************************)
C20_ExportCoversLedger ==
    \A show_id \in ShowIds :
        LET export == export_votes_for_show(show_id)
        IN  /\ Len(export) = Cardinality(ShowRows(show_id))
            /\ \A i \in ShowRows(show_id) :
                  \E k \in DOMAIN export :
                     /\ export[k].stripe_session_id = votes[i].stripe_session_id
                     /\ export[k].category = votes[i].category
                     /\ export[k].vote_qty = votes[i].vote_qty
                     /\ \E c \in show_cars :
                           /\ c.id = votes[i].show_car_id
                           /\ export[k].car_number = c.car_number
                           /\ export[k].person_id = c.person_id
            /\ \A k \in 1..(Len(export) - 1) : export[k].created_at <= export[k + 1].created_at

(***************************************************************************)
(* C21: the leaderboard and export reads change nothing: a step of the     *)
(* leaderboard page or of the export leaves the ledger, the shows, the     *)
(* cars and their owners as they were, and leaderboard_by_category,        *)
(* leaderboard_overall and export_votes_for_show, called again right       *)
(* after it, return for every show what they returned before it.           *)
(***************************************************************************)
ReportStep ==
    \/ admin_leaderboard
    \/ \E r \in At("leaderboard_overall") : admin_leaderboard_overall(r)
    \/ admin_export_votes

C21_ReportsReadOnly ==
    [][ ReportStep =>
           /\ UNCHANGED <<votes, shows, people, show_cars>>
           /\ \A show_id \in ShowIds :
                 /\ leaderboard_by_category(show_id)' = leaderboard_by_category(show_id)
                 /\ leaderboard_overall(show_id)' = leaderboard_overall(show_id)
                 /\ export_votes_for_show(show_id)' = export_votes_for_show(show_id)
      ]_vars

\* the export answered with rows while the ledger still holds them
C21_ExportedAndKept ==
    /\ response.op = "admin_export_votes"
    /\ response.resp = "votes_export_csv"
    /\ response.rows # <<>>
    /\ Len(votes) = PriorRows + 1

(***************************************************************************)
(* C22: for every show s, taking export_votes_for_show(s), then            *)
(* reset_votes_for_show(s), then inserting the exported rows back, each    *)
(* for the car of s that has the row's car number, gives a ledger whose    *)
(* leaderboard_by_category(s) and leaderboard_overall(s) are those of the  *)
(* ledger before the reset.                                                *)
(***************************************************************************)
\* the ledger rows an exported row is inserted back as: one for the car of the
\* show with its number, none when the show has no car of that number
ReplayRow(x, show_id) ==
    {[show_id |-> show_id, show_car_id |-> c.id, category |-> x.category,
      vote_qty |-> x.vote_qty, amount_cents |-> x.amount_cents,
      stripe_session_id |-> x.stripe_session_id, created_at |-> x.created_at] :
        c \in {c \in show_cars : c.show_id = show_id /\ c.car_number = x.car_number}}

RECURSIVE ReplayRows(_, _)
ReplayRows(export, show_id) ==
    IF export = <<>> THEN <<>>
    ELSE (IF ReplayRow(Head(export), show_id) = {} THEN <<>>
          ELSE <<CHOOSE v \in ReplayRow(Head(export), show_id) : TRUE>>)
         \o ReplayRows(Tail(export), show_id)

\* the ledger after the export, the reset and the replay of the export
RoundTrip(show_id) ==
    reset_votes_for_show(show_id) \o ReplayRows(export_votes_for_show(show_id), show_id)

C22_RoundTripKeepsLeaderboards ==
    \A show_id \in ShowIds :
        /\ leaderboard_by_category_of(RoundTrip(show_id), show_id) = leaderboard_by_category(show_id)
        /\ leaderboard_overall_of(RoundTrip(show_id), show_id) = leaderboard_overall(show_id)

(***************************************************************************)
(* C23: a gateway call that fails leaves the store as it was.  The step    *)
(* of create_checkout_session before the call and the failure of           *)
(* Session.create change no table and no session, and the request is       *)
(* answered with an error, not with a checkout URL; the failure of         *)
(* Session.retrieve changes no table.  A later resolution of a session id  *)
(* whose retrieval had failed, when the gateway returns the session as     *)
(* paid with the vote flow's metadata, goes on to the insert, and after    *)
(* the insert the ledger holds exactly one row for the session.            *)
(***************************************************************************)
StoreUnchanged == UNCHANGED <<shows, people, show_cars, donations, votes>>

C24_RowIsWhatWasValidated ==
    \A i \in DOMAIN votes :
        LET id == votes[i].stripe_session_id
        IN  (id \in DOMAIN origin /\ origin[id] # None) =>
               LET validated == origin[id][1]
               IN  /\ votes[i].show_id = validated.show_id
                   /\ votes[i].show_car_id = validated.show_car_id
                   /\ votes[i].category = validated.category
                   /\ votes[i].vote_qty = validated.vote_qty
                   /\ stripe_sessions[id].amount_total = Some(VOTE_PRICE_CENTS * validated.vote_qty)
                   /\ votes[i].amount_cents = VOTE_PRICE_CENTS * validated.vote_qty

\* a row of more than one vote, committed for a session the checkout created
C24_CheckoutRowCommitted ==
    \E i \in DOMAIN votes :
        /\ votes[i].stripe_session_id \in DOMAIN origin
        /\ origin[votes[i].stripe_session_id] # None
        /\ votes[i].vote_qty > 1
        /\ votes[i].category \in CATEGORY_NAMES

(***************************************************************************)
(* C25: a request that is about to call the gateway (Session.create of     *)
(* the vote checkout or of the donation checkout, Session.retrieve at the  *)
(* start of vote_success and donation_success) holds no open transaction   *)
(* of the store: what it wrote before the call is committed.               *)
(***************************************************************************)
\* request r is inside a write transaction it has not committed
HoldsTransaction(r) == "tx" \in DOMAIN r

\* where a request is when its next step is a call of the gateway
GatewayCalls == {"handler", "stripe_create", "donation_stripe_create"}

C25_NoTransactionAcrossGateway ==
    \A r \in BagToSet(req) :
        /\ r.pc \in GatewayCalls => ~HoldsTransaction(r)
        /\ r.pc = "donation_stripe_create" =>
              \E i \in DOMAIN donations :
                 donations[i].id = r.donation_id /\ donations[i].status = "pending"

\* a donation checkout at its gateway call, its pending row committed
C25_DonationAtGateway ==
    \E r \in At("donation_stripe_create") :
        \E i \in DOMAIN donations :
           donations[i].id = r.donation_id /\ donations[i].status = "pending"

(***************************************************************************)
(* C26: no two cars of a show have the same car number, in every state     *)
(* that registrations and placeholder ranges reach in any interleaving.    *)
(* A create_show_car for a number the show already has is answered with    *)
(* the error and leaves show_cars as it was; the commit of a placeholder   *)
(* range keeps every existing row and adds rows only for numbers the show  *)
(* did not have.                                                           *)
(***************************************************************************)
CarNumbersUnique ==
    \A c, d \in show_cars : (c.show_id = d.show_id /\ c.car_number = d.car_number) => c = d

C27_NoCheckoutAfterDeadline ==
    [][ /\ (voting_end = Some(0)) =>
              \A r \in At("stripe_create") :
                 (r.validated.show_id \in get_active_show) => ~create_checkout_session_create(r)
        /\ before_request =>
              \A i \in DOMAIN shows :
                 /\ shows'[i].voting_open = 1 => shows[i].voting_open = 1
                 /\ i \notin get_active_show => shows'[i] = shows[i]
      ]_vars

(***************************************************************************)
(* C28: every ledger row that the delete of admin_reset_votes removes is   *)
(* in the snapshot the same request built before the delete and returns,   *)
(* also when a reconciliation commits a row of the show between the two.   *)
(***************************************************************************)
C28_DeletedRowsAreInSnapshot ==
    [][\A r \in At("reset") :
          admin_reset_votes_delete(r) =>
             \A i \in DOMAIN votes :
                votes[i].show_id = r.show_id =>
                   \E k \in DOMAIN r.snapshot :
                      r.snapshot[k].stripe_session_id = votes[i].stripe_session_id
      ]_vars

(***************************************************************************)
(* C29: the car of a ledger row of a session that create_checkout_session  *)
(* created exists and is a car of the row's show, so the row is in the     *)
(* export of its show and its car is in both leaderboards of its show.     *)
(***************************************************************************)
C29_RowCarIsOfRowShow ==
    \A i \in DOMAIN votes :
        LET v == votes[i]
        IN  (v.stripe_session_id \in DOMAIN origin /\ origin[v.stripe_session_id] # None) =>
               /\ \E c \in show_cars : c.id = v.show_car_id /\ c.show_id = v.show_id
               /\ \A c \in show_cars :
                     c.id = v.show_car_id =>
                        /\ c.show_id = v.show_id
                        /\ \E k \in DOMAIN export_votes_for_show(v.show_id) :
                              /\ export_votes_for_show(v.show_id)[k].stripe_session_id
                                    = v.stripe_session_id
                              /\ export_votes_for_show(v.show_id)[k].car_number = c.car_number
                        /\ \E k \in DOMAIN leaderboard_overall(v.show_id) :
                              leaderboard_overall(v.show_id)[k][1] = c.car_number
                        /\ v.category \in DOMAIN leaderboard_by_category(v.show_id)
                        /\ \E k \in DOMAIN leaderboard_by_category(v.show_id)[v.category] :
                              leaderboard_by_category(v.show_id)[v.category][k][1] = c.car_number

\* a row of a checkout session is in the ledger beside a car of another show
C29_CheckoutRowBesideOtherShow ==
    \E i \in DOMAIN votes :
        /\ votes[i].stripe_session_id \in DOMAIN origin
        /\ origin[votes[i].stripe_session_id] # None
        /\ \E c \in show_cars : c.show_id # votes[i].show_id
        /\ response = Response("vote_success", "vote_success")

(***************************************************************************)
(* The two payment flows side by side: the gateway has room for a vote     *)
(* session and a donation session in the same run.                         *)
(***************************************************************************)
InitFlows ==
    /\ scenario = [workers |-> CheckoutWorkers, sessions |-> FlowSessions,
                   forms |-> SiteForms, externals |-> {}]
    /\ stripe_api_key = TRUE
    /\ voting_end = None
    /\ now = 0
    /\ shows = InitShows(1, 1)
    /\ people = InitPeople
    /\ show_cars = InitShowCars
    /\ donations = <<>>
    /\ votes = <<>>
    /\ stripe_sessions = [id \in {} |-> 0]
    /\ req = EmptyBag
    /\ response = NoResponse
    /\ created = [id \in SessionIds |-> 0]
    /\ rowcount = -1
    /\ failed = {}
    /\ origin = [id \in SessionIds |-> None]

\* a step of one of the two payment flows
NextFlows ==
    \/ before_request
    \/ \E form \in scenario.forms : create_checkout_session(form)
    \/ \E r \in BagToSet(req) : create_checkout_session_create(r)
    \/ \E r \in BagToSet(req) : create_checkout_session_error(r)
    \/ \E session_id \in SessionIdInputs : vote_success(session_id)
    \/ \E r \in BagToSet(req) : vote_success_record(r)
    \/ \E id \in SessionIds : stripe_payment_completed(id)
    \/ \E form \in DonationForms : create_donation_checkout(form)
    \/ \E r \in At("create_donation_row") : create_donation_checkout_row(r)
    \/ \E r \in At("donation_stripe_create") : create_donation_checkout_create(r)
    \/ \E r \in At("donation_stripe_create") : create_donation_checkout_error(r)
    \/ \E r \in At("donation_attach") : create_donation_checkout_attach(r)
    \/ \E session_id \in SessionIdInputs : donation_success(session_id)
    \/ \E r \in At("mark_donation_paid") : donation_success_mark(r)

SpecFlows == InitFlows /\ [][NextFlows]_vars

(***************************************************************************)
(* C30: the reconciliation of votes, given a paid session of the donation  *)
(* checkout, answers "Invalid metadata" and commits no ledger row; the     *)
(* donation-success endpoint, given a paid session of the vote checkout,   *)
(* marks no donation row as paid.                                          *)
(***************************************************************************)
C30_FlowsDoNotLeak ==
    [][ /\ \A session_id \in SessionIds :
              ( /\ vote_success(session_id)
                /\ session_id \in DOMAIN stripe_sessions
                /\ stripe_sessions[session_id].payment_status = "paid"
                /\ "donation_id" \in DOMAIN stripe_sessions[session_id].metadata )
              => /\ response' = Response("vote_success", "invalid_metadata")
                 /\ votes' = votes
                 /\ \A q \in BagToSet(req') :
                       q.pc = "record" => CopiesIn(q, req') <= CopiesIn(q, req)
        /\ \A r \in At("mark_donation_paid") :
              (donation_success_mark(r) /\ origin[r.stripe_session_id] # None)
              => donations' = donations
        /\ \A i \in DOMAIN votes' :
              votes'[i].stripe_session_id \in DOMAIN stripe_sessions' =>
                 "donation_id" \notin
                    DOMAIN stripe_sessions'[votes'[i].stripe_session_id].metadata
      ]_vars

\* the donation-success endpoint has answered for the vote checkout's paid
\* session while the donation, its own session attached and paid, is pending
C30_VoteSessionAtDonationSuccess ==
    /\ response = Response("donation_success", "redirect_attendee_done")
    /\ \E id \in DOMAIN stripe_sessions :
          origin[id] # None /\ stripe_sessions[id].payment_status = "paid"
    /\ \E i \in DOMAIN donations :
          /\ donations[i].status = "pending"
          /\ donations[i].stripe_session_id # None
          /\ stripe_sessions[donations[i].stripe_session_id[1]].payment_status = "paid"

=============================================================================
